---- MODULE Spec2Model ----
(***************************************************************************)
(* Pattern-to-chart pipeline of the crochet backend:                       *)
(*   backend/app/services/pattern_service.py          (PatternService)     *)
(*   backend/app/data/crochet_chart_knowledge.py      (get_pattern_type)   *)
(*   backend/app/services/matplotlib_crochet_service.py                    *)
(* and the model routing of the AI service:                                *)
(*   backend/app/services/ai_service.py               (AIService)          *)
(* and the chat mutations that hand the chat history to it:                *)
(*   backend/app/schemas/mutations.py                 (Mutation)           *)
(*                                                                         *)
(* Text is modelled at token level.  A pattern text is a sequence of      *)
(* physical lines, a line is a sequence of tokens.  Neighbouring word and  *)
(* number tokens are separated by one blank; "(" is glued to the token     *)
(* after it and ")", ":" and "," to the token before it.  The token " "    *)
(* is leading or trailing white space of a line.  Regular expressions and  *)
(* substring tests of the source are evaluated on the tokens through the   *)
(* tables below (which token contains which substring).                    *)
(***************************************************************************)
EXTENDS Integers, Sequences, FiniteSets, TLC

VARIABLES
    pc,            \* position of the sequential caller: idle/parsed/rendered/raised
    text_in,       \* the pattern text the caller passed to parse_pattern_structure
    parsed,        \* <<>> or <<the dict parse_pattern_structure returned>>
    outcome,       \* <<>> or <<how the render call ended: a document or a raise>>
    entry,         \* the render entry point the caller used
    served,        \* how many requests the caller has completed
    pattern_service, \* the module-level PatternService instance (its attributes)
    figures,       \* every matplotlib Figure object created so far: its artists
    gcf,           \* pyplot's registry of open figures, the current figure last
    thread,        \* the concurrent render calls: per thread its locals
    ai_service,    \* the module-level AIService instance (its attributes)
    request,       \* the chat or translate request in flight: its locals
    database,      \* the rows of AIModelConfig and AIModelUsage
    worker,        \* the server processes sharing the database: per process
                   \* the locals of the smart-routed request it handles
    chat           \* the last chat mutation: its caller, its arguments and the
                   \* chat history it handed to the AI service

vars == <<pc, text_in, parsed, outcome, entry, served,
          pattern_service, figures, gcf, thread,
          ai_service, request, database, worker, chat>>

\* the state of the AI service, which no pattern or chart call touches
aiVars == <<ai_service, request, database, worker, chat>>

\* the state of the pattern and chart services, which no AI call touches
chartVars == <<pc, text_in, parsed, outcome, entry, served,
               pattern_service, figures, gcf, thread>>

(***************************************************************************)
(* Bounds of the model.                                                    *)
(***************************************************************************)
\* a pattern text has at most MaxLines physical lines
MaxLines == 2
\* the sequential caller serves at most MaxCalls requests
MaxCalls == 2
\* a priority order names at most MaxChain models
MaxChain == 2
\* at most MaxRequests chat or translate requests are started
MaxRequests == 2
\* at most MaxMessages chat exchanges are stored
MaxMessages == 3
\* integers from Huge on stand for numerals too long for a double
\* (more than 308 digits); arithmetic saturates there
Huge == 100000

(***************************************************************************)
(* Integers: int is unbounded in the source, a float is not.               *)
(***************************************************************************)
IsHuge(n) == n >= Huge
Add(a, b) == IF IsHuge(a) \/ IsHuge(b) THEN Huge
             ELSE IF a + b >= Huge THEN Huge ELSE a + b
Mul(a, b) == IF a = 0 \/ b = 0 THEN 0
             ELSE IF IsHuge(a) \/ IsHuge(b) THEN Huge
             ELSE IF a * b >= Huge THEN Huge ELSE a * b
Max2(a, b) == IF a >= b THEN a ELSE b
Min2(a, b) == IF a <= b THEN a ELSE b
MinOf(S) == CHOOSE x \in S : \A y \in S : x <= y

(***************************************************************************)
(* Tokens.                                                                 *)
(***************************************************************************)
\* str.lower() on a token
Lower(tok) ==
    CASE tok = "Round"      -> "round"
      [] tok = "Rnd"        -> "rnd"
      [] tok = "Row"        -> "row"
      [] tok = "ROW"        -> "row"
      [] tok = "Foundation" -> "foundation"
      [] tok = "Ch"         -> "ch"
      [] tok = "Repeat"     -> "repeat"
      [] tok = "Magic"      -> "magic"
      [] tok = "Rounds"     -> "rounds"
      [] tok = "Total"      -> "total"
      [] OTHER              -> tok

LowerLine(line) == [i \in 1..Len(line) |-> Lower(line[i])]

\* int() of the digit run \d+ a token starts with
NumTable ==
    ("0" :> 0) @@ ("1" :> 1) @@ ("2" :> 2) @@ ("3" :> 3) @@ ("4" :> 4) @@
    ("6" :> 6) @@ ("11" :> 11) @@ ("12" :> 12) @@ ("24" :> 24) @@
    ("25" :> 25) @@ ("49" :> 49) @@ ("50" :> 50) @@ ("199" :> 199) @@
    ("200" :> 200) @@ ("2nd" :> 2) @@ ("9e400" :> Huge)

\* the token "9e400" stands for a numeral of 401 digits
StartsWithDigits(tok) == tok \in DOMAIN NumTable
\* the whole token is one digit run
IsNum(tok) == tok \in DOMAIN NumTable /\ tok # "2nd"
LeadingInt(tok) == NumTable[tok]

\* (?:dc|sc|hdc|tc)
Units4 == {"dc", "sc", "hdc", "tc"}
\* (?:dc|sc|hdc|tc|sts?|stitches?) when the token has to match to its end
TotalUnits == Units4 \cup {"st", "sts", "stitches"}
\* tokens that begin with a match of (?:sts?|stitches?)
StartsWithSt == {"st", "sts", "stitches", "stitch"}
\* tokens that contain the substring
ContainsTotal == {"total", "subtotal"}
ContainsFrom == {"from"}
ContainsRound == {"round", "rounds", "around"}
ContainsRow == {"row", "rows", "arrow"}
EndsWithCh == {"ch", "each"}
StartsWith3 == {"3"}
StartsWithEach == {"each"}

At(l, i) == IF i >= 1 /\ i <= Len(l) THEN l[i] ELSE ""

(***************************************************************************)
(* PatternService.__init__: the stitch vocabulary, in declaration order.   *)
(***************************************************************************)
PatternServiceInit ==
    [stitch_symbols |-> <<"sc", "dc", "hdc", "tc", "sl st", "ch", "inc", "dec", "yo", "sk">>]

(***************************************************************************)
(* str.strip() and str.split('\n').                                        *)
(***************************************************************************)
IsBlank(line) == \A i \in 1..Len(line) : line[i] = " "

RECURSIVE LStrip(_)
LStrip(line) ==
    IF line # <<>> /\ Head(line) = " " THEN LStrip(Tail(line)) ELSE line

RECURSIVE RStrip(_)
RStrip(line) ==
    IF line # <<>> /\ line[Len(line)] = " "
    THEN RStrip(SubSeq(line, 1, Len(line) - 1)) ELSE line

\* line.strip()
StripLine(line) == RStrip(LStrip(line))

RECURSIVE DropLeadingBlank(_)
DropLeadingBlank(text) ==
    IF text # <<>> /\ IsBlank(Head(text)) THEN DropLeadingBlank(Tail(text)) ELSE text

RECURSIVE DropTrailingBlank(_)
DropTrailingBlank(text) ==
    IF text # <<>> /\ IsBlank(text[Len(text)])
    THEN DropTrailingBlank(SubSeq(text, 1, Len(text) - 1)) ELSE text

\* pattern_text.strip().split('\n'): white space at both ends of the text goes,
\* and the empty string splits into one empty line
SplitLines(text) ==
    LET t == DropTrailingBlank(DropLeadingBlank(text)) IN
    IF t = <<>> THEN << <<>> >>
    ELSE [i \in 1..Len(t) |->
            IF i = 1 /\ i = Len(t) THEN StripLine(t[i])
            ELSE IF i = 1 THEN LStrip(t[i])
            ELSE IF i = Len(t) THEN RStrip(t[i])
            ELSE t[i]]

(***************************************************************************)
(* PatternService._count_stitches                                          *)
(***************************************************************************)
\* re.search(r'\((\d+)\s*(?:dc|sc|hdc|tc|sts?|stitches?)\)'): where "(" stands
ExplicitTotalHits(l) ==
    {i \in 1..Len(l) : /\ l[i] = "("
                       /\ IsNum(At(l, i + 1))
                       /\ At(l, i + 2) \in TotalUnits
                       /\ At(l, i + 3) = ")"}

\* re.search(word + r'.*?(\d+)'): positions of the first digit run after the
\* leftmost token containing `word` that has a digit run after it
DigitsAfterHits(l, containing) ==
    LET starts == {i \in 1..Len(l) : l[i] \in containing /\
                      \E j \in (i + 1)..Len(l) : StartsWithDigits(l[j])}
    IN  IF starts = {} THEN {}
        ELSE {MinOf({j \in (MinOf(starts) + 1)..Len(l) : StartsWithDigits(l[j])})}

\* re.search(r'(\d+)\s+(?:dc|sc|hdc|tc)\s+(?:in|into)\s+magic\s+ring')
MagicRingHits(l) ==
    {i \in 1..Len(l) : /\ IsNum(l[i])
                       /\ At(l, i + 1) \in Units4
                       /\ At(l, i + 2) \in {"in", "into"}
                       /\ At(l, i + 3) = "magic"
                       /\ At(l, i + 4) \in {"ring", "rings"}}

\* 'ch 3' in instruction_lower
HasCh3(l) == \E i \in 1..Len(l) : l[i] \in EndsWithCh /\ At(l, i + 1) \in StartsWith3
\* 'chain 3' in instruction_lower
HasChain3(l) == \E i \in 1..Len(l) : l[i] = "chain" /\ At(l, i + 1) \in StartsWith3

\* re.search(r'(\d+)\s+(?:dc|sc|hdc|tc)\s+in\s+each')
IncreaseHits(l) ==
    {i \in 1..Len(l) : /\ IsNum(l[i])
                       /\ At(l, i + 1) \in Units4
                       /\ At(l, i + 2) = "in"
                       /\ At(l, i + 3) \in StartsWithEach}

\* re.search(r'(\d+)\s+(?:sts?|stitches?)')
PrevRoundHits(l) ==
    {i \in 1..Len(l) : IsNum(l[i]) /\ At(l, i + 1) \in StartsWithSt}

\* re.findall(r'(\d+)\s*' + unit + r'(?!\s*in\s*each)')
StitchPatternHits(l, unit) ==
    {i \in 1..Len(l) : /\ IsNum(l[i])
                       /\ At(l, i + 1) = unit
                       /\ ~(At(l, i + 2) = "in" /\ At(l, i + 3) \in StartsWithEach)}

RECURSIVE SumAt(_, _)
SumAt(l, hits) ==
    IF hits = {} THEN 0
    ELSE LET i == MinOf(hits) IN Add(LeadingInt(l[i]), SumAt(l, hits \ {i}))

\* lines 399-417: the fallback that sums the individually mentioned counts
FallbackCount(l) ==
    LET stitch_count == Add(Add(SumAt(l, StitchPatternHits(l, "dc")),
                                SumAt(l, StitchPatternHits(l, "sc"))),
                            Add(SumAt(l, StitchPatternHits(l, "hdc")),
                                SumAt(l, StitchPatternHits(l, "tc"))))
        with_ch3 == IF HasCh3(l) /\ stitch_count > 0
                    THEN Add(stitch_count, 1) ELSE stitch_count
    IN  Max2(with_ch3, 1)

\* lines 386-397: the multiplier rule; <<>> when it falls through
IncreaseCount(l) ==
    IF IncreaseHits(l) = {} THEN <<>>
    ELSE LET multiplier == LeadingInt(l[MinOf(IncreaseHits(l))])
             prev_count == DigitsAfterHits(l, ContainsFrom)
             prev_round == PrevRoundHits(l)
         IN  IF prev_count # {}
             THEN <<Mul(multiplier, LeadingInt(l[MinOf(prev_count)]))>>
             ELSE IF prev_round # {}
             THEN <<Mul(multiplier, LeadingInt(l[MinOf(prev_round)]))>>
             ELSE <<>>

\* lines 377-384
MagicRingCount(l) ==
    LET base_count == LeadingInt(l[MinOf(MagicRingHits(l))])
    IN  IF HasCh3(l) \/ HasChain3(l) THEN Add(base_count, 1) ELSE base_count

CountStitches(instruction) ==
    LET l == LowerLine(instruction)
        explicit_total == ExplicitTotalHits(l)
        total_pattern == DigitsAfterHits(l, ContainsTotal)
    IN  IF explicit_total # {} THEN LeadingInt(l[MinOf(explicit_total) + 1])
        ELSE IF total_pattern # {} THEN LeadingInt(l[MinOf(total_pattern)])
        ELSE IF MagicRingHits(l) # {} THEN MagicRingCount(l)
        ELSE IF IncreaseCount(l) # <<>> THEN IncreaseCount(l)[1]
        ELSE FallbackCount(l)

(***************************************************************************)
(* PatternService._identify_stitch_types.  A dict is the sequence of its   *)
(* items in insertion order.                                               *)
(***************************************************************************)
\* len(re.findall(r'\b' + re.escape(abbrev) + r'\b', instruction_lower))
AbbrevCount(l, abbrev) ==
    IF abbrev = "sl st"
    THEN Cardinality({i \in 1..Len(l) : l[i] = "sl" /\ At(l, i + 1) = "st"})
    ELSE Cardinality({i \in 1..Len(l) : l[i] = abbrev})

IdentifyStitchTypes(self, instruction) ==
    LET l == LowerLine(instruction)
        all == [i \in 1..Len(self.stitch_symbols) |->
                   [k |-> self.stitch_symbols[i],
                    v |-> AbbrevCount(l, self.stitch_symbols[i])]]
        Found(item) == item.v > 0
    IN  SelectSeq(all, Found)

DictKeys(d) == {d[i].k : i \in 1..Len(d)}
DictGet(d, key) == LET i == CHOOSE j \in 1..Len(d) : d[j].k = key IN d[i].v

\* dict.update: a key already present keeps its place and takes the new value,
\* a new key goes to the end
RECURSIVE DictUpdate(_, _)
DictUpdate(d, u) ==
    IF u = <<>> THEN d
    ELSE LET item == Head(u)
             d1 == IF item.k \in DictKeys(d)
                   THEN [i \in 1..Len(d) |-> IF d[i].k = item.k THEN item ELSE d[i]]
                   ELSE Append(d, item)
         IN  DictUpdate(d1, Tail(u))

(***************************************************************************)
(* PatternService._determine_pattern_type and _estimate_size               *)
(***************************************************************************)
AllLower(text) == [i \in 1..Len(text) |-> LowerLine(text[i])]

\* 'magic ring' in text_lower or 'magic circle' in text_lower
MentionsMagic(low) ==
    \E n \in 1..Len(low) : \E i \in 1..Len(low[n]) :
        low[n][i] = "magic" /\ At(low[n], i + 1) \in {"ring", "rings", "circle"}

\* re.search(r'\b(?:round|rnd)\b', text_lower)
HasRoundWord(low) ==
    \E n \in 1..Len(low) : \E i \in 1..Len(low[n]) : low[n][i] \in {"round", "rnd"}

\* re.search(r'\brow\b', text_lower)
HasRowWord(low) ==
    \E n \in 1..Len(low) : \E i \in 1..Len(low[n]) : low[n][i] = "row"

\* the row test runs before the round test
DeterminePatternType_RowsFirst(text) ==
    LET text_lower == AllLower(text) IN
    IF MentionsMagic(text_lower) THEN "circular"
    ELSE IF HasRowWord(text_lower) THEN "rows"
    ELSE IF HasRoundWord(text_lower) THEN "rounds"
    ELSE "unknown"

DeterminePatternType(text) ==
    LET text_lower == AllLower(text) IN
    IF MentionsMagic(text_lower) THEN "circular"
    ELSE IF HasRoundWord(text_lower) THEN "rounds"
    ELSE IF HasRowWord(text_lower) THEN "rows"
    ELSE "unknown"

RECURSIVE SumStitches(_)
SumStitches(rounds) ==
    IF rounds = <<>> THEN 0 ELSE Add(Head(rounds).stitches, SumStitches(Tail(rounds)))

\* the limits belong to the smaller class
EstimateSize_Inclusive(rounds) ==
    IF rounds = <<>> THEN "unknown"
    ELSE LET total_stitches == SumStitches(rounds) IN
         IF total_stitches <= 50 THEN "small (< 3 inches)"
         ELSE IF total_stitches <= 200 THEN "medium (3-6 inches)"
         ELSE "large (> 6 inches)"

EstimateSize(rounds) ==
    IF rounds = <<>> THEN "unknown"
    ELSE LET total_stitches == SumStitches(rounds) IN
         IF total_stitches < 50 THEN "small (< 3 inches)"
         ELSE IF total_stitches < 200 THEN "medium (3-6 inches)"
         ELSE "large (> 6 inches)"

(***************************************************************************)
(* PatternService.parse_pattern_structure                                  *)
(***************************************************************************)
\* re.match(r'(?:round|rnd|row)\s*(\d+)', line.lower())
RoundMatch(line) ==
    LET l == LowerLine(line) IN
    Len(l) >= 2 /\ l[1] \in {"round", "rnd", "row"} /\ StartsWithDigits(l[2])

\* lines 45-50
NewRound(self, line) ==
    [number       |-> LeadingInt(Lower(line[2])),
     instructions |-> line,
     stitches     |-> CountStitches(line),
     stitch_types |-> IdentifyStitchTypes(self, line)]

\* a continuation line's count takes the place of the record's count
Continue_Replaces(self, current_round, line) ==
    [number       |-> current_round.number,
     instructions |-> current_round.instructions \o line,
     stitches     |-> CountStitches(line),
     stitch_types |-> DictUpdate(current_round.stitch_types,
                                 IdentifyStitchTypes(self, line))]

\* lines 52-54
Continue(self, current_round, line) ==
    [number       |-> current_round.number,
     instructions |-> current_round.instructions \o line,
     stitches     |-> Add(current_round.stitches, CountStitches(line)),
     stitch_types |-> DictUpdate(current_round.stitch_types,
                                 IdentifyStitchTypes(self, line))]

\* the loop's last open record is never appended
CloseLast_Dropped(rounds, current) == rounds

\* lines 56-57: what the loop leaves open is closed at the end
CloseLast(rounds, current) ==
    IF current # <<>> THEN Append(rounds, current[1]) ELSE rounds

\* lines 35-57; `current` is <<>> for None and <<record>> otherwise
RECURSIVE ParseLoop(_, _, _, _)
ParseLoop(self, lines, rounds, current) ==
    IF lines = <<>> THEN CloseLast(rounds, current)
    ELSE LET line == StripLine(Head(lines)) IN
         IF line = <<>> THEN ParseLoop(self, Tail(lines), rounds, current)
         ELSE IF RoundMatch(line)
         THEN ParseLoop(self, Tail(lines),
                        IF current # <<>> THEN Append(rounds, current[1]) ELSE rounds,
                        <<NewRound(self, line)>>)
         ELSE IF current # <<>>
         THEN ParseLoop(self, Tail(lines), rounds, <<Continue(self, current[1], line)>>)
         ELSE ParseLoop(self, Tail(lines), rounds, current)

ParsePatternStructure(self, text) ==
    LET rounds == ParseLoop(self, SplitLines(text), <<>>, <<>>) IN
    [total_rounds   |-> Len(rounds),
     rounds         |-> rounds,
     pattern_type   |-> DeterminePatternType(text),
     estimated_size |-> EstimateSize(rounds),
     pattern_text   |-> text]

(***************************************************************************)
(* crochet_chart_knowledge.get_pattern_type: plain substring tests         *)
(***************************************************************************)
HasPhrase(low, first, second) ==
    \E n \in 1..Len(low) : \E i \in 1..Len(low[n]) :
        low[n][i] \in first /\ At(low[n], i + 1) \in second

HasSubstring(low, containing) ==
    \E n \in 1..Len(low) : \E i \in 1..Len(low[n]) : low[n][i] \in containing

GetPatternType(text) ==
    LET text_lower == AllLower(text) IN
    IF HasPhrase(text_lower, {"magic"}, {"ring", "rings", "circle"}) THEN "circular"
    ELSE IF HasPhrase(text_lower, {"granny"}, {"square"}) THEN "square"
    ELSE IF \/ HasSubstring(text_lower, {"foundation"})
            \/ HasPhrase(text_lower, {"base"}, {"chain"})
    THEN "rectangular"
    ELSE IF HasSubstring(text_lower, ContainsRound) THEN "circular"
    ELSE IF HasSubstring(text_lower, ContainsRow) THEN "rectangular"
    ELSE "unknown"

(***************************************************************************)
(* The input lines the model draws pattern texts from.                     *)
(***************************************************************************)
\* COMMON_PATTERNS['basic_amigurumi_sphere'][0]
L_MagicRing == <<"Round", "1", ":", "6", "sc", "in", "magic", "ring">>
\* COMMON_PATTERNS['basic_amigurumi_sphere'][1]
L_IncParen == <<"Round", "2", ":", "inc", "in", "each", "st", "around", "(", "12", ")">>
\* COMMON_PATTERNS['basic_scarf'][0]
L_Foundation == <<"Foundation", ":", "Ch", "25">>
\* COMMON_PATTERNS['basic_scarf'][1]
L_ScarfRow == <<"Row", "1", ":", "sc", "in", "2nd", "ch", "from", "hook", ",", "sc", "across", "(", "24", "sc", ")">>
\* COMMON_PATTERNS['basic_scarf'][3]: a marker that does not start the line
L_RepeatRow == <<"Repeat", "Row", "2", "until", "desired", "length">>
\* a round of an abbreviation the vocabulary does not know
L_Puff == <<"Round", "3", ":", "puff">>
\* an explicit total of 0
L_ZeroTotal == <<"Round", "4", ":", "(", "0", "sts", ")">>
\* round number 0, indented, a multiplier with nothing to multiply
L_RoundZero == <<" ", "rnd", "0", ":", "2", "dc", "in", "each", "st", " ">>
\* an explicit total of 200
L_Cap == <<"Round", "2", ":", "(", "200", "sts", ")">>
\* a round number of 401 digits
L_HugeRound == <<"Round", "9e400", ":", "6", "sc">>
\* a round number of 401 digits on a round of no stitches
L_HugeZero == <<"Round", "9e400", ":", "(", "0", "sts", ")">>
\* the multiplier rule with a 'from N' count
L_Mult == <<"Rnd", "3", ":", "2", "dc", "in", "each", "st", "from", "6">>
\* a continuation line with a 'total' phrase of 0
L_TotalZero == <<"Total", "0">>
\* the comment of line 377: 11 dc in magic ring plus ch 3
L_Ch3Ring == <<"ch", "3", ",", "11", "dc", "in", "magic", "ring">>
\* a continuation line of individually mentioned counts
L_Cluster == <<"3", "dc", ",", "ch", "2", ",", "3", "dc">>
\* a magic-ring count of 0
L_ZeroRing == <<"Round", "1", ":", "0", "sc", "in", "magic", "ring">>
\* a multiplier of 0
L_ZeroMult == <<"Round", "2", ":", "0", "dc", "in", "each", "of", "12", "sts">>
\* a line of white space
L_Blank == <<" ">>
\* a row in capitals with several stitch types
L_Trebles == <<"ROW", "2", ":", "tc", ",", "tc", ",", "dc", ",", "sl", "st">>
\* the plural 'Rounds' and 'around': no marker, no whole word
L_Rounds == <<"Rounds", "of", "sc", "around">>
\* ch 3 counted as a stitch by the fallback
L_Ch3Dc == <<"ch", "3", ",", "2", "dc", ",", "tc">>
\* a granny square mention
L_Granny == <<"granny", "square", ",", "4", "hdc">>

Lines ==
    {L_MagicRing, L_IncParen, L_Foundation, L_ScarfRow, L_RepeatRow,
     L_Puff, L_ZeroTotal, L_RoundZero, L_Cap, L_HugeRound,
     L_HugeZero, L_Mult, L_TotalZero, L_Ch3Ring, L_Cluster,
     L_ZeroRing, L_ZeroMult, L_Blank, L_Trebles, L_Rounds,
     L_Ch3Dc, L_Granny}

\* explicit totals next to the limits of the size estimate
L_Total49 == <<"Round", "1", ":", "(", "49", "sts", ")">>
L_Total50 == <<"Round", "1", ":", "(", "50", "sts", ")">>
L_Total199 == <<"Round", "1", ":", "(", "199", "sts", ")">>

\* texts whose stitch totals are 49, 50, 199 and 200
BoundaryTexts ==
    {<<L_Total49>>, <<L_Total50>>, <<L_Total199>>,
     <<L_Total49, L_Puff>>, <<L_Total199, L_Puff>>}

\* longer texts: a continuation line after two records, a record of three
\* lines, three records numbered out of order
LongTexts ==
    {<<L_MagicRing, L_Mult, L_Cluster>>,
     <<L_Trebles, L_Cluster, L_Ch3Dc>>,
     <<L_Puff, L_MagicRing, L_IncParen>>}

\* every text of at most MaxLines lines, and the longer texts
PatternTexts ==
    UNION {[1..n -> Lines] : n \in 0..MaxLines} \cup LongTexts \cup BoundaryTexts

(***************************************************************************)
(* Drawing primitives.  A coordinate the source computes with cos and sin  *)
(* is kept symbolic: the point                                             *)
(*     (cx + rad * cos(k * 360 / n - 90) + dx, cy + rad * sin(...) + dy)   *)
(* in degrees.  `role` names the statement of the source that emits the    *)
(* element.                                                                *)
(***************************************************************************)
Pt(cx, cy, rad, k, n, dx, dy) ==
    [cx |-> cx, cy |-> cy, rad |-> rad, k |-> k, n |-> n, dx |-> dx, dy |-> dy]
AbsPt(x, y) == Pt(x, y, 0, 0, 1, 0, 0)
Shift(p, ddx, ddy) == [p EXCEPT !.dx = @ + ddx, !.dy = @ + ddy]

SvgLine(role, start, end, stroke, stroke_width) ==
    [tag |-> "line", role |-> role, start |-> start, end |-> end,
     stroke |-> stroke, stroke_width |-> stroke_width]
SvgCircle(role, center, r, fill, stroke) ==
    [tag |-> "circle", role |-> role, center |-> center, r |-> r,
     fill |-> fill, stroke |-> stroke]
SvgEllipse(role, center, rx, ry, stroke) ==
    [tag |-> "ellipse", role |-> role, center |-> center, rx |-> rx, ry |-> ry,
     stroke |-> stroke]
\* text with the values an f-string formats into it
SvgText(role, insert, text, n, s) ==
    [tag |-> "text", role |-> role, insert |-> insert, text |-> text, n |-> n, s |-> s]
SvgRect(role, width, height, fill) ==
    [tag |-> "rect", role |-> role, insert |-> AbsPt(0, 0),
     width |-> width, height |-> height, fill |-> fill]
SvgPath(role, start, end, r, stroke) ==
    [tag |-> "path", role |-> role, start |-> start, end |-> end, r |-> r,
     stroke |-> stroke]

(***************************************************************************)
(* PatternService._get_dominant_stitch_type and _draw_stitch_symbol        *)
(***************************************************************************)
RECURSIVE MaxValue(_)
MaxValue(d) == IF Len(d) = 1 THEN d[1].v ELSE Max2(d[1].v, MaxValue(Tail(d)))

\* the default of an empty histogram is the chain
GetDominantStitchType_DefaultChain(stitch_types) ==
    IF stitch_types = <<>> THEN "ch"
    ELSE stitch_types[MinOf({i \in 1..Len(stitch_types) :
                                stitch_types[i].v = MaxValue(stitch_types)})].k

\* max(stitch_types.items(), key=lambda x: x[1])[0]: the first of the largest
GetDominantStitchType(stitch_types) ==
    IF stitch_types = <<>> THEN "sc"
    ELSE stitch_types[MinOf({i \in 1..Len(stitch_types) :
                                stitch_types[i].v = MaxValue(stitch_types)})].k

\* colors.get(stitch_type, '#000000')
SymbolColor(stitch_type) ==
    CASE stitch_type = "ch"    -> "#666666"
      [] stitch_type = "sl st" -> "#333333"
      [] OTHER                 -> "#000000"

\* lines 224-230 and 264-270: the X of single crochet
CrossSymbol(role, p, color) ==
    <<SvgLine(role, Shift(p, -4, -4), Shift(p, 4, 4), color, "1.5"),
      SvgLine(role, Shift(p, -4, 4), Shift(p, 4, -4), color, "1.5")>>

DrawStitchSymbol(role, p, stitch_type) ==
    LET color == SymbolColor(stitch_type) IN
    CASE stitch_type = "sc" -> CrossSymbol(role, p, color)
      [] stitch_type = "dc" ->
            <<SvgLine(role, Shift(p, 0, -6), Shift(p, 0, 6), color, "2"),
              SvgLine(role, Shift(p, -4, -3), Shift(p, 4, -3), color, "1.5"),
              SvgLine(role, Shift(p, -4, 3), Shift(p, 4, 3), color, "1.5")>>
      [] stitch_type = "hdc" ->
            <<SvgLine(role, Shift(p, 0, -5), Shift(p, 0, 5), color, "2"),
              SvgLine(role, Shift(p, -4, 0), Shift(p, 4, 0), color, "1.5")>>
      [] stitch_type = "ch" -> <<SvgEllipse(role, p, 3, 2, color)>>
      [] stitch_type = "sl st" -> <<SvgCircle(role, p, 2, color, "none")>>
      [] OTHER -> CrossSymbol(role, p, color)

(***************************************************************************)
(* PatternService._draw_round_stitches                                     *)
(***************************************************************************)
\* lines 200-209: the symbol of the dominant stitch type at position i of
\* range(stitch_count)
StitchAt(center_x, center_y, radius, round_data, i) ==
    DrawStitchSymbol("stitch",
                     Pt(center_x, center_y, radius, i, round_data.stitches, 0, 0),
                     GetDominantStitchType(round_data.stitch_types))

\* the loop: the symbols of positions 0 .. stitch_count - 1, one after the other
\* (every position takes the same number of primitives)
StitchLoop(center_x, center_y, radius, round_data) ==
    LET per == Len(StitchAt(center_x, center_y, radius, round_data, 0)) IN
    [j \in 1..(round_data.stitches * per) |->
        StitchAt(center_x, center_y, radius, round_data,
                 (j - 1) \div per)[((j - 1) % per) + 1]]

DrawRoundStitches(center_x, center_y, radius, round_data) ==
    IF round_data.stitches = 0 THEN <<>>
    ELSE StitchLoop(center_x, center_y, radius, round_data)

(***************************************************************************)
(* PatternService._draw_radial_guidelines, _draw_directional_arrows and    *)
(* _draw_professional_legend                                               *)
(***************************************************************************)
\* 50 + (len(rounds) - 1) * 35
OuterRadius(rounds) == 50 + (Len(rounds) - 1) * 35

DrawRadialGuidelines(center_x, center_y, rounds) ==
    IF rounds = <<>> THEN <<>>
    ELSE [i \in 1..8 |->
            SvgLine("guide", AbsPt(center_x, center_y),
                    Pt(center_x, center_y, OuterRadius(rounds), i - 1, 8, 0, 0),
                    "#d1d5db", "0.5")]

\* the path of the curved arrow: from -60 degrees over 270 degrees
DrawDirectionalArrows(center_x, center_y, rounds, pattern_type) ==
    IF rounds = <<>> \/ pattern_type \notin {"circular", "square"} THEN <<>>
    ELSE IF Len(rounds) > 1
    THEN LET outer_radius == OuterRadius(rounds) + 15 IN
         <<SvgPath("arrow", Pt(center_x, center_y, outer_radius, 1, 12, 0, 0),
                   Pt(center_x, center_y, outer_radius, 10, 12, 0, 0),
                   outer_radius, "#ef4444")>>
    ELSE <<>>

\* line 186-188: the arrowhead marker goes to the drawing's defs
ArrowDefs(rounds, pattern_type) ==
    IF rounds # <<>> /\ pattern_type \in {"circular", "square"} /\ Len(rounds) > 1
    THEN <<[tag |-> "marker", id |-> "arrowhead"]>>
    ELSE <<>>

legend_items ==
    <<[symbol |-> "sc",    description |-> "Single Crochet (sc)"],
      [symbol |-> "hdc",   description |-> "Half Double Crochet (hdc)"],
      [symbol |-> "dc",    description |-> "Double Crochet (dc)"],
      [symbol |-> "ch",    description |-> "Chain (ch)"],
      [symbol |-> "sl st", description |-> "Slip Stitch (sl st)"]>>

RECURSIVE LegendLoop(_, _, _)
LegendLoop(legend_x, y_offset, i) ==
    IF i > Len(legend_items) THEN <<>>
    ELSE LET y == y_offset + (i - 1) * 18 IN
         DrawStitchSymbol("legend", AbsPt(legend_x + 10, y), legend_items[i].symbol)
         \o <<SvgText("legend", AbsPt(legend_x + 25, y + 4),
                      legend_items[i].description, 0, "")>>
         \o LegendLoop(legend_x, y_offset, i + 1)

DrawProfessionalLegend(width, height) ==
    LET legend_y == height - 120
        legend_x == 30
    IN  <<SvgText("legend", AbsPt(legend_x, legend_y), "Chart Symbols:", 0, "")>>
        \o LegendLoop(legend_x, legend_y + 20, 1)

(***************************************************************************)
(* PatternService.generate_stitch_diagram_svg                              *)
(***************************************************************************)
RECURSIVE MaxStitches(_)
\* max([r['stitches'] for r in rounds] + [12])
MaxStitches(rounds) ==
    IF rounds = <<>> THEN 12 ELSE Max2(Head(rounds).stitches, MaxStitches(Tail(rounds)))

\* radius = 50 + (round_num - 1) * 35
RingRadius(round_data) ==
    IF IsHuge(round_data.number) THEN Huge ELSE 50 + (round_data.number - 1) * 35

\* lines 110-135 for one round
DrawRound(center_x, center_y, round_data) ==
    LET radius == RingRadius(round_data)
        label_x == IF IsHuge(radius) THEN -Huge ELSE center_x - radius - 50
        top == IF IsHuge(radius) THEN -Huge ELSE center_y - radius
    IN  <<SvgCircle("ring", AbsPt(center_x, center_y), radius, "none", "#e5e7eb"),
          SvgText("round_label",
                  AbsPt(label_x, IF IsHuge(radius) THEN top ELSE top + 8),
                  "R{round_num}", round_data.number, ""),
          SvgText("count_label",
                  AbsPt(label_x, IF IsHuge(radius) THEN top ELSE top + 22),
                  "({stitch_count})", round_data.stitches, "")>>
        \o (IF round_data.stitches > 0
            THEN DrawRoundStitches(center_x, center_y, radius, round_data)
            ELSE <<>>)

RECURSIVE DrawRounds(_, _, _)
DrawRounds(center_x, center_y, rounds) ==
    IF rounds = <<>> THEN <<>>
    ELSE DrawRound(center_x, center_y, Head(rounds))
         \o DrawRounds(center_x, center_y, Tail(rounds))

\* the drawing of lines 71-140 when no statement raises
SvgDrawing(pattern_data) ==
    LET pattern_type == GetPatternType(pattern_data.pattern_text)
        max_stitches == MaxStitches(pattern_data.rounds)
        width == Min2(600, Max2(400, Mul(max_stitches, 20)))
        height == 500
        center_x == width \div 2
        center_y == height \div 2 + 20
    IN  [width    |-> width,
         height   |-> height,
         defs     |-> ArrowDefs(pattern_data.rounds, pattern_type),
         elements |->
            <<SvgRect("background", width, height, "white"),
              SvgText("title", AbsPt(width \div 2, 25), "Crochet Pattern Chart", 0, ""),
              SvgText("subtitle", AbsPt(width \div 2, 45),
                      "Pattern: {pattern_type} * {total_rounds} rounds",
                      pattern_data.total_rounds, pattern_data.pattern_type)>>
            \o (IF pattern_type \in {"circular", "square"}
                THEN DrawRadialGuidelines(center_x, center_y, pattern_data.rounds)
                ELSE <<>>)
            \o DrawDirectionalArrows(center_x, center_y, pattern_data.rounds, pattern_type)
            \o DrawRounds(center_x, center_y, pattern_data.rounds)
            \o DrawProfessionalLegend(width, height)]

\* line 202: radius * math.cos(...) converts the int radius to float, which
\* raises OverflowError above the range of a double
StitchPositionRaises(round_data) ==
    IsHuge(RingRadius(round_data)) /\ round_data.stitches > 0

\* whether svgwrite's validation accepts an int above the range of a double as
\* a length is the library's choice: both outcomes are kept
MayRejectLength(round_data) == IsHuge(RingRadius(round_data))

Raised(exception) == [raised |-> TRUE, exception |-> exception]
Returned(doc) == [raised |-> FALSE, doc |-> doc]

\* what a call generate_stitch_diagram_svg(pattern_data) can end with
GenerateStitchDiagramSvg(pattern_data) ==
    LET rounds == pattern_data.rounds IN
    IF \E i \in 1..Len(rounds) : StitchPositionRaises(rounds[i])
    THEN {Raised("OverflowError"), Raised("TypeError")}
    ELSE IF \E i \in 1..Len(rounds) : MayRejectLength(rounds[i])
    THEN {Raised("TypeError"), Returned(SvgDrawing(pattern_data))}
    ELSE {Returned(SvgDrawing(pattern_data))}

(***************************************************************************)
(* matplotlib.pyplot keeps the open figures in one registry of the process *)
(* (Gcf); the figure registered last is the current one.  A Figure object  *)
(* lives on while a caller holds it, registered or not: `figs` is the      *)
(* sequence of all Figure objects (their artists), a figure's identity its *)
(* index, and `reg` the registry.                                          *)
(***************************************************************************)
Plt(figs, reg) == [figs |-> figs, reg |-> reg]

\* plt.subplots(): a new figure, registered as the current one
PltSubplots(plt) == Plt(Append(plt.figs, <<>>), Append(plt.reg, Len(plt.figs) + 1))
NewFigure(plt) == Len(plt.figs) + 1

\* ax.text, ax.add_patch, ax.set_title: on the caller's own axes
AxDraw(plt, fig, artists) == Plt([plt.figs EXCEPT ![fig] = @ \o artists], plt.reg)

\* plt.gcf(): the current figure; with none open pyplot makes one
PltGcf(plt) == IF plt.reg = <<>> THEN PltSubplots(plt) ELSE plt
CurrentFigure(plt) == plt.reg[Len(plt.reg)]

\* plt.savefig(buffer): saves plt.gcf(), not the caller's fig
PltSavefig(plt) == PltGcf(plt)
SavedImage(plt) == PltGcf(plt).figs[CurrentFigure(PltGcf(plt))]

\* plt.close(): closes the current figure, if there is one
PltClose(plt) ==
    IF plt.reg = <<>> THEN plt ELSE Plt(plt.figs, SubSeq(plt.reg, 1, Len(plt.reg) - 1))

\* plt.close(fig): closes that figure, if it is registered
PltCloseFig(plt, fig) ==
    LET Other(f) == f # fig IN Plt(plt.figs, SelectSeq(plt.reg, Other))

Artist(tag, role, text, a, b) ==
    [tag |-> tag, role |-> role, text |-> text, a |-> a, b |-> b]

(***************************************************************************)
(* PatternService.generate_pattern_chart_png                               *)
(***************************************************************************)
\* lines 337-346: circle i of len(rounds) at radius (i + 1) / len(rounds) * 0.4
RECURSIVE PngRounds(_, _)
PngRounds(rounds, i) ==
    IF i > Len(rounds) THEN <<>>
    ELSE <<Artist("Circle", "ring", "", i, Len(rounds)),
           Artist("Text", "round_label", "R{number} ({stitches})",
                  rounds[i].number, rounds[i].stitches)>>
         \o PngRounds(rounds, i + 1)

\* lines 328-352: what the call draws on its axes
PngArtists(pattern_data) ==
    (IF pattern_data.rounds = <<>>
     THEN <<Artist("Text", "placeholder", "No pattern data available", 0, 0)>>
     ELSE PngRounds(pattern_data.rounds, 1))
    \o <<Artist("Text", "title", "Pattern Chart", 0, 0)>>

(***************************************************************************)
(* MatplotlibCrochetService.generate_general_pattern_chart and             *)
(* generate_granny_square_chart                                            *)
(***************************************************************************)
\* rounds[:4]
FirstFour(rounds) == SubSeq(rounds, 1, Min2(4, Len(rounds)))

\* _draw_general_round: round_data.get('stitches', []) is the int the parser
\* stored; `not stitches` returns for 0 and len(stitches) raises for the rest
GeneralRoundRaises(round_data) == round_data.stitches # 0

GeneralRaises(pattern_data) ==
    \E i \in 1..Len(FirstFour(pattern_data.rounds)) :
        GeneralRoundRaises(pattern_data.rounds[i])

\* f'{pattern_type.title()} Chart'
ChartTitle(pattern_type) ==
    CASE pattern_type = "circular" -> "Circular Chart"
      [] pattern_type = "rounds"   -> "Rounds Chart"
      [] pattern_type = "rows"     -> "Rows Chart"
      [] OTHER                     -> "Unknown Chart"

\* lines 740-748 when no round raises: the rounds draw nothing, then the title
GeneralArtists(pattern_data) ==
    <<Artist("Text", "title", ChartTitle(pattern_data.pattern_type), 0, 0)>>

\* _is_traditional_granny_pattern
IsTraditionalGrannyPattern(text) ==
    LET low == AllLower(text) IN
    /\ text # <<>> /\ text # << <<>> >>
    /\ \/ HasPhrase(low, {"granny"}, {"square"})
       \/ HasSubstring(low, {"granny"}) /\ HasSubstring(low, {"square"})
       \/ HasPhrase(low, EndsWithCh, {"4"}) /\ HasSubstring(low, {"join"})
       \/ HasPhrase(low, EndsWithCh, {"2", "24", "25", "200", "2nd"})
       \/ HasSubstring(low, {"corner"})

\* lines 54-66: the drawing helpers the call runs, then the title
GrannyArtists(text) ==
    (IF IsTraditionalGrannyPattern(text)
     THEN <<Artist("Group", "_draw_traditional_granny_square", "", 0, 0)>>
     ELSE <<Artist("Group", "_draw_round_1_cartesian", "", 0, 0),
            Artist("Group", "_draw_round_2_cartesian", "", 0, 0)>>)
    \o <<Artist("Text", "title", "Granny Square Pattern Chart", 0, 0)>>

\* what one chart call draws on its own axes
ChartArtists(kind, pattern_data) ==
    CASE kind = "png"     -> PngArtists(pattern_data)
      [] kind = "general" -> GeneralArtists(pattern_data)
      [] kind = "granny"  -> GrannyArtists(pattern_data.pattern_text)

ChartRaises(kind, pattern_data) == kind = "general" /\ GeneralRaises(pattern_data)

\* lines 359 / 754 / 76: plt.close() in the PNG chart, plt.close(fig) in the others
ChartClose(kind, plt, fig) ==
    IF kind = "png" THEN PltClose(plt) ELSE PltCloseFig(plt, fig)

\* a whole chart call, run without interruption on the pyplot state `plt`
ChartCall(kind, pattern_data, plt) ==
    LET p1 == PltSubplots(plt)
        fig == NewFigure(plt)
    IN  IF ChartRaises(kind, pattern_data)
        THEN [plt |-> p1, result |-> Raised("TypeError")]
        ELSE LET p2 == AxDraw(p1, fig, ChartArtists(kind, pattern_data))
                 p3 == PltSavefig(p2)
             IN  [plt |-> ChartClose(kind, p3, fig), result |-> Returned(SavedImage(p2))]

(***************************************************************************)
(* backend/app/services/ai_service.py (AIService).  An optional value is   *)
(* <<>> (None) or <<v>>.  Of a reply of a model only its origin is kept:   *)
(* which model wrote it and whether the service put "[model] " in front.   *)
(***************************************************************************)

\* AIService.ALL_AVAILABLE_MODELS, in declaration order
ALL_AVAILABLE_MODELS ==
    << [key |-> "deepseek/deepseek-chat-v3.1:free", provider |-> "openrouter"],
       [key |-> "qwen/qwen3-30b-a3b:free", provider |-> "openrouter"],
       [key |-> "gemini-2.5-pro", provider |-> "gemini"],
       [key |-> "gemini-2.5-flash-preview-09-2025", provider |-> "gemini"],
       [key |-> "gemini-2.5-flash", provider |-> "gemini"],
       [key |-> "gemini-2.5-flash-lite", provider |-> "gemini"] >>

ModelKeys == {ALL_AVAILABLE_MODELS[i].key : i \in DOMAIN ALL_AVAILABLE_MODELS}

\* ALL_AVAILABLE_MODELS.get(name): <<>> or <<the entry>>
ModelInfo(name) ==
    IF name \in ModelKeys
    THEN <<CHOOSE m \in {ALL_AVAILABLE_MODELS[i] : i \in DOMAIN ALL_AVAILABLE_MODELS} :
                m.key = name>>
    ELSE <<>>

\* GeminiModel: name and daily limit of PRO, FLASH_PREVIEW, FLASH, FLASH_LITE
GeminiModel ==
    [PRO |-> [name |-> "gemini-2.5-pro", daily_limit |-> 100],
     FLASH_PREVIEW |-> [name |-> "gemini-2.5-flash-preview-09-2025", daily_limit |-> 250],
     FLASH |-> [name |-> "gemini-2.5-flash", daily_limit |-> 250],
     FLASH_LITE |-> [name |-> "gemini-2.5-flash-lite", daily_limit |-> 1000]]

\* AIService.__init__ when the database holds no configuration row
AIServiceInit(gemini_api_key) ==
    [gemini_api_key |-> gemini_api_key,
     use_openrouter_default |-> FALSE,
     _ai_provider_preference |-> "auto",
     _selected_model |-> <<>>,
     _model_priority_order |-> <<>>]

\* the tables AIModelConfig (at most one row) and AIModelUsage (the rows of
\* today in the order of their ids: no constraint makes model_name unique)
\* the users and the conversation each of them owns (Conversation.id,
\* Conversation.user_id)
Users == {1, 2}
Conversations == <<[id |-> 1, user_id |-> 1], [id |-> 2, user_id |-> 2]>>

\* ChatMessage rows start empty, in the order of created_at
DatabaseInit ==
    [config |-> <<>>, usage |-> <<>>,
     conversations |-> Conversations, chat_messages |-> <<>>]

\* _load_config_from_db on a new instance: the attributes the row sets, or
\* none when the table is empty.  A selected model that is no key of
\* ALL_AVAILABLE_MODELS leaves use_openrouter_default None, written FALSE.
LoadConfigFromDb(self, db) ==
    IF db.config = <<>> THEN self
    ELSE LET config == db.config[1]
             loaded == [self EXCEPT
                           !._selected_model = config.selected_model,
                           !._model_priority_order = config.model_priority_order,
                           !._ai_provider_preference = config.provider_preference]
         IN  [loaded EXCEPT !.use_openrouter_default =
                 IF loaded._selected_model # <<>>
                 THEN /\ ModelInfo(loaded._selected_model[1]) # <<>>
                      /\ ModelInfo(loaded._selected_model[1])[1].provider = "openrouter"
                 ELSE loaded._model_priority_order # <<>>]

\* AIService(): __init__ with the configuration the database holds
NewAIService(gemini_api_key, db) ==
    LoadConfigFromDb(AIServiceInit(gemini_api_key), db)

\* get_ai_provider_config, without the constant list of available models
GetAiProviderConfig(self) ==
    [use_openrouter |-> self.use_openrouter_default,
     current_provider |-> self._ai_provider_preference,
     selected_model |-> self._selected_model,
     model_priority_order |-> self._model_priority_order]

\* _save_config_to_db: the one configuration row takes the attributes of self
SaveConfigToDb(self, db) ==
    [db EXCEPT !.config = <<[selected_model |-> self._selected_model,
                             model_priority_order |-> self._model_priority_order,
                             provider_preference |-> self._ai_provider_preference]>>]

\* db.query(AIModelUsage).filter(model_name, date).first(): <<>> or <<the row
\* loaded into the session>>, the row of the lowest id when there are several
UsageFirst(db, model_name) ==
    LET ids == {id \in DOMAIN db.usage : db.usage[id].model_name = model_name}
    IN  IF ids = {} THEN <<>>
        ELSE <<[id |-> MinOf(ids),
                request_count |-> db.usage[MinOf(ids)].request_count]>>

\* _increment_usage from the `if usage:` to the commit: the loaded row is
\* written back with its count plus one, or a new row with count 1 is added
UsageCommit(db, model_name, usage) ==
    IF usage # <<>>
    THEN [db EXCEPT !.usage[usage[1].id].request_count = usage[1].request_count + 1]
    ELSE [db EXCEPT !.usage = Append(@, [model_name |-> model_name,
                                         request_count |-> 1])]

\* _increment_usage run without another process in between
IncrementUsage(db, model_name) ==
    UsageCommit(db, model_name, UsageFirst(db, model_name))

\* _get_usage_for_date
GetUsageForDate(db, model_name) ==
    LET usage == UsageFirst(db, model_name)
    IN  IF usage # <<>> THEN usage[1].request_count ELSE 0

\* set_ai_model up to the save: the attributes of self afterwards, the
\* 'success' of the returned dict and whether _save_config_to_db is reached.
\* priority_order <<>> is None or the empty list, which the code treats alike.
SetAiModel(self, model_name, priority_order) ==
    IF model_name # <<>> /\ model_name[1] \notin ModelKeys
    THEN [self |-> self, success |-> FALSE, saves |-> FALSE]
    ELSE LET selected == [self EXCEPT !._selected_model = model_name] IN
         IF model_name # <<>>
         THEN LET provider == ModelInfo(model_name[1])[1].provider IN
              [self |-> [selected EXCEPT
                            !._ai_provider_preference = provider,
                            !.use_openrouter_default = (provider = "openrouter")],
               success |-> TRUE, saves |-> TRUE]
         ELSE IF priority_order # <<>>
         THEN IF \E i \in DOMAIN priority_order : priority_order[i] \notin ModelKeys
              THEN [self |-> selected, success |-> FALSE, saves |-> FALSE]
              ELSE [self |-> [selected EXCEPT
                                 !._model_priority_order = priority_order,
                                 !._ai_provider_preference = "auto"],
                    success |-> TRUE, saves |-> TRUE]
         ELSE [self |-> [selected EXCEPT
                            !._model_priority_order = <<>>,
                            !._ai_provider_preference = "auto"],
               success |-> TRUE, saves |-> TRUE]

\* the branch chat_about_pattern and translate_crochet_pattern take
Route(self) ==
    IF self._selected_model # <<>> /\ ModelInfo(self._selected_model[1]) # <<>>
    THEN "selected"
    ELSE IF self._model_priority_order # <<>>
    THEN "chain"
    ELSE IF self.gemini_api_key
    THEN "smart"
    ELSE "unconfigured"

\* _select_best_available_model: the preference order of a complexity
PreferredOrder(complexity) ==
    IF complexity = "complex"
    THEN <<"PRO", "FLASH_PREVIEW", "FLASH", "FLASH_LITE">>
    ELSE IF complexity = "simple"
    THEN <<"FLASH", "FLASH_PREVIEW", "PRO", "FLASH_LITE">>
    ELSE <<"FLASH_PREVIEW", "FLASH", "PRO", "FLASH_LITE">>

\* the test of the loop of _select_best_available_model, with the limit
\* itself counted as quota left
QuotaLeft_AtLimit(db, model) ==
    GetUsageForDate(db, model.name) <= model.daily_limit

\* the test of the loop of _select_best_available_model
QuotaLeft(db, model) ==
    GetUsageForDate(db, model.name) < model.daily_limit

\* _select_best_available_model: <<>> or <<the first model with quota left>>
SelectBestAvailableModel(db, complexity) ==
    LET order == PreferredOrder(complexity)
        free == {i \in DOMAIN order : QuotaLeft(db, GeminiModel[order[i]])}
    IN IF free = {} THEN <<>>
       ELSE <<GeminiModel[order[MinOf(free)]].name>>

\* what a call returns: a model's reply, passed on with or without the
\* "[model] " prefix, or a text the service wrote itself
Reply(model_name, prefixed) ==
    [kind |-> "reply", model |-> model_name, prefixed |-> prefixed, text |-> ""]
ServiceText(text) ==
    [kind |-> "text", model |-> "", prefixed |-> FALSE, text |-> text]

\* the text returned after the loop over the priority order
AllModelsFailedText(kind) ==
    IF kind = "translate"
    THEN ServiceText("Error with OpenRouter (all models failed)")
    ELSE ServiceText("Sorry, I'm having trouble responding right now")

\* the text a single-model or smart-routing call returns from its except branch
FailedText(kind) ==
    IF kind = "translate"
    THEN ServiceText("Translation failed")
    ELSE ServiceText("Sorry, model failed")

\* the text returned without a Gemini client
UnconfiguredText(kind) ==
    IF kind = "translate"
    THEN ServiceText("Basic translation (AI not available)")
    ELSE ServiceText("AI service not configured. Please set GEMINI_API_KEY.")

\* the text returned when _select_best_available_model returns None
DailyLimitsText == ServiceText("All AI models have reached their daily limits")

\* the server processes, and a process with no request in flight
Workers == {"w1", "w2"}
IdleWorker ==
    [pc |-> "idle", kind |-> "", complexity |-> "", i |-> 0, model |-> <<>>,
     usage |-> <<>>, posts |-> <<>>, result |-> <<>>, begun |-> 0]

\* no chat mutation has run
NoChat ==
    [entry |-> "none", user |-> <<>>, conversation_id |-> <<>>,
     chat_history |-> <<>>]

\* no request in flight; `begun` counts the requests started so far
NoRequest ==
    [pc |-> "none", kind |-> "", route |-> "", order |-> <<>>, i |-> 0,
     last_error |-> <<>>,
     posts |-> <<>>, result |-> <<>>, begun |-> 0]

(***************************************************************************)
(* The sequential caller: one PatternService instance serves call after    *)
(* call (mutations.py: parse_pattern_structure, then a chart of its        *)
(* result).                                                                *)
(***************************************************************************)
Threads == {1, 2}
IdleThread == [pc |-> "idle", kind |-> "", data |-> <<>>, fig |-> 0,
               buffer |-> <<>>, result |-> <<>>]

\* a call drops the vocabulary entry it looked at first
SelfAfterCall_Consumes(self) == [self EXCEPT !.stitch_symbols = Tail(@)]

\* no method of PatternService assigns an attribute of self after __init__
SelfAfterCall(self) == self

Init ==
    /\ pc = "idle"
    /\ text_in = <<>>
    /\ parsed = <<>>
    /\ outcome = <<>>
    /\ entry = "none"
    /\ served = 0
    /\ pattern_service = PatternServiceInit
    /\ figures = <<>>
    /\ gcf = <<>>
    /\ thread = [t \in Threads |-> IdleThread]
    /\ ai_service \in {AIServiceInit(key) : key \in BOOLEAN}
    /\ request = NoRequest
    /\ database = DatabaseInit
    /\ worker = [w \in Workers |-> IdleWorker]
    /\ chat = NoChat

\* pattern_data = pattern_service.parse_pattern_structure(pattern_text)
CallParse ==
    /\ pc = "idle"
    /\ served < MaxCalls
    /\ \E text \in PatternTexts :
          /\ text_in' = text
          /\ parsed' = <<ParsePatternStructure(pattern_service, text)>>
    /\ pc' = "parsed"
    /\ pattern_service' = SelfAfterCall(pattern_service)
    /\ UNCHANGED <<outcome, entry, served, figures, gcf, thread, aiVars>>

\* pattern_service.generate_stitch_diagram_svg(pattern_data)
CallSvg ==
    /\ pc = "parsed"
    /\ \E o \in GenerateStitchDiagramSvg(parsed[1]) :
          /\ outcome' = <<o>>
          /\ pc' = IF o.raised THEN "raised" ELSE "rendered"
    /\ entry' = "svg"
    /\ pattern_service' = SelfAfterCall(pattern_service)
    /\ UNCHANGED <<text_in, parsed, served, figures, gcf, thread, aiVars>>

\* pattern_service.generate_pattern_chart_png(pattern_data), uninterrupted;
\* the Figure object is garbage once the call has returned
CallPng ==
    /\ pc = "parsed"
    /\ LET call == ChartCall("png", parsed[1], Plt(figures, gcf)) IN
          /\ outcome' = <<call.result>>
          /\ pc' = IF call.result.raised THEN "raised" ELSE "rendered"
          /\ gcf' = call.plt.reg
          /\ figures' = IF call.plt.reg = <<>> THEN <<>> ELSE call.plt.figs
    /\ entry' = "png"
    /\ pattern_service' = SelfAfterCall(pattern_service)
    /\ UNCHANGED <<text_in, parsed, served, thread, aiVars>>

\* the caller takes the result and is ready for the next request
Return ==
    /\ pc \in {"rendered", "raised"}
    /\ pc' = "idle"
    /\ text_in' = <<>>
    /\ parsed' = <<>>
    /\ outcome' = <<>>
    /\ entry' = "none"
    /\ served' = served + 1
    /\ UNCHANGED <<pattern_service, figures, gcf, thread, aiVars>>

Next == CallParse \/ CallSvg \/ CallPng \/ Return

Spec == Init /\ [][Next]_vars

(***************************************************************************)
(* Concurrent chart requests: each thread runs one chart call, statement   *)
(* by statement, on the pyplot state of the process.                       *)
(***************************************************************************)
ChartKinds == {"png", "general", "granny"}
ConcTexts == {<<>>, <<L_MagicRing>>, <<L_ZeroTotal>>, <<L_Cluster>>,
              <<L_MagicRing, L_Puff>>}

\* the call starts: its arguments become locals
ChartBegin(t) ==
    /\ thread[t].pc = "idle"
    /\ \E kind \in ChartKinds, text \in ConcTexts :
          thread' = [thread EXCEPT ![t] =
                        [@ EXCEPT !.pc = "subplots", !.kind = kind,
                                  !.data = <<ParsePatternStructure(pattern_service, text)>>]]
    /\ UNCHANGED <<pc, text_in, parsed, outcome, entry, served, pattern_service,
                   figures, gcf, aiVars>>

\* fig, ax = plt.subplots(...)
ChartSubplots(t) ==
    /\ thread[t].pc = "subplots"
    /\ LET plt == PltSubplots(Plt(figures, gcf)) IN
          /\ figures' = plt.figs
          /\ gcf' = plt.reg
    /\ thread' = [thread EXCEPT ![t] =
                     [@ EXCEPT !.pc = "draw", !.fig = NewFigure(Plt(figures, gcf))]]
    /\ UNCHANGED <<pc, text_in, parsed, outcome, entry, served, pattern_service, aiVars>>

\* the ax.* statements up to the title, or the statement that raises
ChartDraw(t) ==
    /\ thread[t].pc = "draw"
    /\ IF ChartRaises(thread[t].kind, thread[t].data[1])
       THEN /\ thread' = [thread EXCEPT ![t] =
                             [@ EXCEPT !.pc = "raised",
                                       !.result = <<Raised("TypeError")>>]]
            /\ UNCHANGED <<figures, gcf>>
       ELSE /\ LET plt == AxDraw(Plt(figures, gcf), thread[t].fig,
                                 ChartArtists(thread[t].kind, thread[t].data[1])) IN
                  /\ figures' = plt.figs
                  /\ gcf' = plt.reg
            /\ thread' = [thread EXCEPT ![t] = [@ EXCEPT !.pc = "savefig"]]
    /\ UNCHANGED <<pc, text_in, parsed, outcome, entry, served, pattern_service, aiVars>>

\* plt.savefig(buffer, ...)
ChartSavefig(t) ==
    /\ thread[t].pc = "savefig"
    /\ LET plt == PltSavefig(Plt(figures, gcf)) IN
          /\ figures' = plt.figs
          /\ gcf' = plt.reg
    /\ thread' = [thread EXCEPT ![t] =
                     [@ EXCEPT !.pc = "close",
                               !.buffer = <<SavedImage(Plt(figures, gcf))>>]]
    /\ UNCHANGED <<pc, text_in, parsed, outcome, entry, served, pattern_service, aiVars>>

\* plt.close() or plt.close(fig), then return the buffer's content
ChartCloseReturn(t) ==
    /\ thread[t].pc = "close"
    /\ LET plt == ChartClose(thread[t].kind, Plt(figures, gcf), thread[t].fig) IN
          /\ figures' = plt.figs
          /\ gcf' = plt.reg
    /\ thread' = [thread EXCEPT ![t] =
                     [@ EXCEPT !.pc = "done",
                               !.result = <<Returned(thread[t].buffer[1])>>]]
    /\ UNCHANGED <<pc, text_in, parsed, outcome, entry, served, pattern_service, aiVars>>

NextConc ==
    \E t \in Threads :
        \/ ChartBegin(t)
        \/ ChartSubplots(t)
        \/ ChartDraw(t)
        \/ ChartSavefig(t)
        \/ ChartCloseReturn(t)

SpecConc == Init /\ [][NextConc]_vars

(***************************************************************************)
(* Chat and translate requests on the AIService instance.  A request runs  *)
(* up to its next await; set_ai_model may run while a request waits for a  *)
(* model.  A POST to a model ends with an answer (status 200 and a body    *)
(* with the content) or an error; the usage bookkeeping that follows an    *)
(* answer commits or raises (the database is another server).              *)
(***************************************************************************)
\* the models the priority orders are drawn from, and a name that is no key
\* of ALL_AVAILABLE_MODELS
ChainModels == {"deepseek/deepseek-chat-v3.1:free", "gemini-2.5-flash"}
UnknownModel == "gpt-4"
PriorityOrders ==
    UNION {[1..n -> ChainModels] : n \in 0..MaxChain} \cup {<<UnknownModel>>}
Complexities == {"complex", "simple", "general"}

\* ai_service.set_ai_model(model_name, priority_order), the save included
\* (the row is read again only by the next process, in __init__)
SetModelCall(model_name, priority_order) ==
    /\ LET call == SetAiModel(ai_service, model_name, priority_order) IN
          /\ ai_service' = call.self
          /\ database' = IF call.saves
                         THEN SaveConfigToDb(call.self, database)
                         ELSE database
    /\ UNCHANGED <<request, worker, chat, chartVars>>

\* the arguments set_ai_model is called with
ModelNames == {<<>>, <<UnknownModel>>} \cup {<<m>> : m \in ChainModels}

SetModel ==
    \E model_name \in ModelNames, priority_order \in PriorityOrders :
        SetModelCall(model_name, priority_order)

\* chat_about_pattern / translate_crochet_pattern up to the first call of a
\* model: the branch is chosen and, in the chain, the loop takes the list
BeginRequest ==
    /\ request.pc = "none"
    /\ request.begun < MaxRequests
    /\ \E kind \in {"chat", "translate"}, complexity \in Complexities :
          LET route == Route(ai_service)
              best == SelectBestAvailableModel(
                          database, IF kind = "translate" THEN "complex" ELSE complexity)
              order == IF route = "chain" THEN ai_service._model_priority_order
                       ELSE IF route = "selected" THEN ai_service._selected_model
                       ELSE IF route = "smart" THEN best
                       ELSE <<>>
              started == [request EXCEPT !.kind = kind, !.route = route,
                                         !.order = order, !.i = 1,
                                         !.begun = @ + 1]
          IN request' =
                IF route = "unconfigured"
                THEN [started EXCEPT !.pc = "done", !.result = <<UnconfiguredText(kind)>>]
                ELSE IF order = <<>>
                THEN [started EXCEPT !.pc = "done",
                         !.result = <<DailyLimitsText>>]
                ELSE IF route = "selected"
                        /\ ModelInfo(order[1])[1].provider = "gemini"
                        /\ ~ai_service.gemini_api_key
                THEN [started EXCEPT !.pc = "done",
                         !.result = <<ServiceText("Gemini client not configured")>>]
                ELSE [started EXCEPT !.pc = route]
    /\ UNCHANGED <<ai_service, database, worker, chat, chartVars>>

\* one turn of the loop of _chat_with_openrouter / _translate_with_openrouter:
\* the POST for order[i], then the usage bookkeeping and the return, or the
\* except branch and the next model; after the last model the error text
ChainPost ==
    /\ request.pc = "chain"
    /\ \E reply \in {"answer", "error"}, db_up \in BOOLEAN :
          LET model_name == request.order[request.i]
              posted == [request EXCEPT
                            !.posts = Append(@, [model |-> model_name, reply |-> reply])]
              raised == <<[model |-> model_name,
                           in |-> IF reply = "error" THEN "post" ELSE "usage"]>>
          IN /\ reply = "error" => db_up
             /\ IF reply = "answer" /\ db_up
                THEN /\ database' = IncrementUsage(database, model_name)
                     /\ request' = [posted EXCEPT !.pc = "done",
                                       !.result = <<Reply(model_name, TRUE)>>]
                ELSE /\ database' = database
                     /\ request' =
                           IF request.i < Len(request.order)
                           THEN [posted EXCEPT !.i = @ + 1, !.last_error = raised]
                           ELSE [posted EXCEPT !.pc = "done", !.last_error = raised,
                                    !.result = <<AllModelsFailedText(request.kind)>>]
    /\ UNCHANGED <<ai_service, worker, chat, chartVars>>

\* the one call of a model in _*_with_specific_*_model and _*_with_gemini
SinglePost ==
    /\ request.pc \in {"selected", "smart"}
    /\ \E reply \in {"answer", "error"}, db_up \in BOOLEAN :
          LET model_name == request.order[1]
              posted == [request EXCEPT !.pc = "done",
                            !.posts = Append(@, [model |-> model_name, reply |-> reply])]
              prefixed == ~(request.pc = "selected" /\ request.kind = "translate")
          IN /\ reply = "error" => db_up
             /\ IF reply = "answer" /\ db_up
                THEN /\ database' = IncrementUsage(database, model_name)
                     /\ request' = [posted EXCEPT
                                       !.result = <<Reply(model_name, prefixed)>>]
                ELSE /\ database' = database
                     /\ request' = [posted EXCEPT
                                       !.result = <<FailedText(request.kind)>>]
    /\ UNCHANGED <<ai_service, worker, chat, chartVars>>

\* the caller takes the returned text
Deliver ==
    /\ request.pc = "done"
    /\ request' = [NoRequest EXCEPT !.begun = request.begun]
    /\ UNCHANGED <<ai_service, database, worker, chat, chartVars>>

NextAI == SetModel \/ BeginRequest \/ ChainPost \/ SinglePost \/ Deliver

SpecAI == Init /\ [][NextAI]_vars

(***************************************************************************)
(* Properties.                                                             *)
(***************************************************************************)
\* the elements of the document the render call returned
DocElements ==
    IF entry = "svg" THEN outcome[1].doc.elements ELSE outcome[1].doc

\* the point a stitch element is drawn around, without the symbol's offsets
Anchor(e) ==
    LET p == IF e.tag = "line" THEN e.start ELSE e.center
    IN  [p EXCEPT !.dx = 0, !.dy = 0]

\* the centre of the SVG chart for the parsed pattern
ChartCentre(pattern_data) ==
    LET width == Min2(600, Max2(400, Mul(MaxStitches(pattern_data.rounds), 20)))
    IN  [x |-> width \div 2, y |-> 270]

\* where position k of a round's ring lies
RingPoint(pattern_data, round_data, k) ==
    Pt(ChartCentre(pattern_data).x, ChartCentre(pattern_data).y,
       RingRadius(round_data), k, round_data.stitches, 0, 0)

\* the positions of a round's ring at which the document has a stitch element
DrawnPositions(pattern_data, round_data) ==
    {k \in 0..(round_data.stitches - 1) :
        \E i \in 1..Len(DocElements) :
            /\ DocElements[i].role = "stitch"
            /\ Anchor(DocElements[i]) = RingPoint(pattern_data, round_data, k)}

\* C1: after parse_pattern_structure every record of 'rounds' has
\* stitches >= 1, whatever number the line's parenthetical total, 'total'
\* phrase, magic-ring count or multiplier is
C1_EveryRecordHasAStitch ==
    pc = "parsed" =>
        \A i \in 1..Len(parsed[1].rounds) : parsed[1].rounds[i].stitches >= 1

\* C2: parse_pattern_structure followed by generate_stitch_diagram_svg returns
\* a document and never raises, whatever the text contains
C2_SvgNeverRaises ==
    entry = "svg" => pc # "raised"

\* the lines of a text that start with a round/rnd/row marker, in text order
MarkerIndices(text) ==
    LET IsMarker(n) == RoundMatch(StripLine(text[n]))
    IN  SelectSeq([n \in 1..Len(text) |-> n], IsMarker)

\* C3: the number of records (total_rounds, the length of 'rounds') is the
\* number of lines that start with a round/rnd/row marker; the i-th record is
\* opened by the i-th marker line (its number and the start of its
\* instructions), and a text without marker lines gives no record
C3_OneRecordPerMarker ==
    pc = "parsed" =>
        LET rounds == parsed[1].rounds
            idx == MarkerIndices(text_in)
        IN  /\ parsed[1].total_rounds = Len(rounds)
            /\ Len(rounds) = Len(idx)
            /\ \A i \in 1..Len(idx) :
                  LET line == StripLine(text_in[idx[i]]) IN
                  /\ i <= Len(rounds)
                  /\ rounds[i].number = LeadingInt(line[2])
                  /\ SubSeq(rounds[i].instructions, 1, Len(line)) = line

\* a marker line opened a record and a line without marker opened none
C3_Witness ==
    /\ pc = "parsed"
    /\ Len(text_in) = 2
    /\ ~RoundMatch(StripLine(text_in[1]))
    /\ ~IsBlank(text_in[1])
    /\ RoundMatch(StripLine(text_in[2]))
    /\ parsed[1].total_rounds = 1

\* C4: parsing 'Round 1: 6 sc in magic ring' / 'Round 2: inc in each st
\* around (12)' gives round 1 a stitch count of 6 and round 2 the parenthetical
\* total 12
C4_ParentheticalTotalWins ==
    (pc = "parsed" /\ text_in = <<L_MagicRing, L_IncParen>>) =>
        /\ parsed[1].rounds[1].stitches = 6
        /\ parsed[1].rounds[2].stitches = 12

\* what the text mentions, read off the tokens of the text as given
TextHasWord(text, words) ==
    \E n \in 1..Len(text) : \E i \in 1..Len(text[n]) : Lower(text[n][i]) \in words
TextHasMagic(text) ==
    \E n \in 1..Len(text) : \E i \in 1..(Len(text[n]) - 1) :
        Lower(text[n][i]) = "magic" /\ Lower(text[n][i + 1]) \in {"ring", "circle"}

C6_PlaceholderOnly ==
    (pc = "rendered" /\ parsed[1].rounds = <<>>) =>
        /\ \E i \in 1..Len(DocElements) : DocElements[i].role = "placeholder"
        /\ \A i \in 1..Len(DocElements) :
              DocElements[i].role \notin {"ring", "guide", "arrow", "stitch"}

\* C7: a ring whose stitch count exceeds the display cap (200 does) shows
\* fewer symbols than stitches and one truncation marker, and its count label
\* still shows the true count
C7_DisplayCap ==
    (pc = "rendered" /\ entry = "svg") =>
        \A r \in 1..Len(parsed[1].rounds) :
            LET round_data == parsed[1].rounds[r] IN
            round_data.stitches >= 200 =>
                /\ Cardinality(DrawnPositions(parsed[1], round_data)) < round_data.stitches
                /\ Cardinality({i \in 1..Len(DocElements) :
                                   DocElements[i].role = "truncation"}) = 1
                /\ \E i \in 1..Len(DocElements) :
                      /\ DocElements[i].role = "count_label"
                      /\ DocElements[i].n = round_data.stitches

\* the two diagonals of the single-crochet X around a point
CrossAt(p) ==
    {[tag |-> "line", role |-> "stitch", start |-> Shift(p, -4, -4),
      end |-> Shift(p, 4, 4), stroke |-> "#000000", stroke_width |-> "1.5"],
     [tag |-> "line", role |-> "stitch", start |-> Shift(p, -4, 4),
      end |-> Shift(p, 4, -4), stroke |-> "#000000", stroke_width |-> "1.5"]}

\* every token a round's dominant stitch type can be, and one outside the
\* vocabulary
StitchTokens ==
    {PatternServiceInit.stitch_symbols[i] :
        i \in 1..Len(PatternServiceInit.stitch_symbols)} \cup {"puff"}

\* C8: a round with an empty histogram is drawn with the single-crochet X at
\* every position of its ring, and every stitch token draws something at every
\* position: the lookup of a symbol is total
C8_FallbackIsSingleCrochet ==
    /\ \A tok \in StitchTokens : DrawStitchSymbol("stitch", AbsPt(0, 0), tok) # <<>>
    /\ (pc = "rendered" /\ entry = "svg") =>
          \A r \in 1..Len(parsed[1].rounds) :
              LET round_data == parsed[1].rounds[r]
                  drawn == {DocElements[i] : i \in 1..Len(DocElements)}
              IN  /\ DrawnPositions(parsed[1], round_data)
                        = 0..(round_data.stitches - 1)
                  /\ round_data.stitch_types = <<>> =>
                        \A k \in 0..(round_data.stitches - 1) :
                            CrossAt(RingPoint(parsed[1], round_data, k)) \subseteq drawn

\* a round that only mentions 'puff' has been drawn
C8_Witness ==
    /\ pc = "rendered"
    /\ entry = "svg"
    /\ text_in = <<L_Puff>>
    /\ parsed[1].rounds[1].stitch_types = <<>>
    /\ parsed[1].rounds[1].stitches = 1

C10_InterleavingIsInvisible ==
    \A t \in Threads :
        thread[t].pc = "done" =>
            thread[t].result[1]
                = ChartCall(thread[t].kind, thread[t].data[1], Plt(<<>>, <<>>)).result


\* the request in flight runs the fallback chain
InFallbackChain == request.route = "chain"

\* C11: in fallback-chain mode the models of the priority order are contacted
\* strictly in the configured order, no model is contacted after one has
\* answered successfully, the returned response is that of the first model
\* that answered, and the error text of the exhausted chain is returned only
\* when every model of the order has failed to answer.
C11_ChainStopsAtFirstSuccess ==
    InFallbackChain =>
        LET posts == request.posts IN
        /\ Len(posts) <= Len(request.order)
        /\ \A j \in DOMAIN posts : posts[j].model = request.order[j]
        /\ \A j \in DOMAIN posts : posts[j].reply = "answer" => j = Len(posts)
        /\ request.result # <<>> =>
              IF \E j \in DOMAIN posts : posts[j].reply = "answer"
              THEN /\ request.result[1].kind = "reply"
                   /\ request.result[1].model = posts[Len(posts)].model
              ELSE /\ request.result[1] = AllModelsFailedText(request.kind)
                   /\ Len(posts) = Len(request.order)

\* the number of whole-word occurrences of the vocabulary's abbreviations
RECURSIVE BareOccurrences(_, _, _)
BareOccurrences(self, l, i) ==
    IF i > Len(self.stitch_symbols) THEN 0
    ELSE AbbrevCount(l, self.stitch_symbols[i]) + BareOccurrences(self, l, i + 1)

\* the counts mentioned one by one ("12 dc"), with the chain-3 convention
MentionedSum(l) ==
    LET sum == Add(Add(SumAt(l, StitchPatternHits(l, "dc")),
                       SumAt(l, StitchPatternHits(l, "sc"))),
                   Add(SumAt(l, StitchPatternHits(l, "hdc")),
                       SumAt(l, StitchPatternHits(l, "tc"))))
    IN  IF HasCh3(l) /\ sum > 0 THEN Add(sum, 1) ELSE sum

\* the rule of the precedence list that decides a line: the first that matches
DecidingRule(l) ==
    IF ExplicitTotalHits(l) # {} THEN "explicit total"
    ELSE IF DigitsAfterHits(l, ContainsTotal) # {} THEN "total phrase"
    ELSE IF MagicRingHits(l) # {} THEN "magic ring"
    ELSE IF IncreaseCount(l) # <<>> THEN "multiplier"
    ELSE IF MentionedSum(l) > 0 THEN "mentioned counts"
    ELSE "bare occurrences"

\* what the deciding rule yields for the line
RuleValue(self, l) ==
    LET rule == DecidingRule(l) IN
    IF rule = "explicit total" THEN LeadingInt(l[MinOf(ExplicitTotalHits(l)) + 1])
    ELSE IF rule = "total phrase"
    THEN LeadingInt(l[MinOf(DigitsAfterHits(l, ContainsTotal))])
    ELSE IF rule = "magic ring" THEN MagicRingCount(l)
    ELSE IF rule = "multiplier" THEN IncreaseCount(l)[1]
    ELSE IF rule = "mentioned counts" THEN MentionedSum(l)
    ELSE Max2(BareOccurrences(self, l, 1), 1)

\* the records of the parse that consist of their marker line alone
OneLineRecords ==
    LET idx == MarkerIndices(text_in) IN
    {i \in 1..Len(idx) :
        parsed[1].rounds[i].instructions = StripLine(text_in[idx[i]])}

\* C12: _count_stitches yields the value of the first rule that matches, in
\* the order explicit parenthetical total, 'total ... N' phrase, magic-ring
\* rule, 'N <stitch> in each' multiplier rule, sum of the individually
\* mentioned counts, bare-occurrence fallback (the number of stitch
\* abbreviations on the line, at least 1); no lower rule changes the result.
C12_StrictPrecedence ==
    pc = "parsed" =>
        \A i \in OneLineRecords :
            parsed[1].rounds[i].stitches
                = RuleValue(pattern_service, LowerLine(parsed[1].rounds[i].instructions))

\* the last line of the i-th record: the line before the next marker line
LastLineOf(text, i) ==
    LET idx == MarkerIndices(text) IN
    IF i < Len(idx) THEN idx[i + 1] - 1 ELSE Len(text)

\* the sum of _count_stitches over the non-blank lines first..last of a text
RECURSIVE SumOfLineCounts(_, _, _)
SumOfLineCounts(text, first, last) ==
    IF first > last THEN 0
    ELSE Add(IF IsBlank(text[first]) THEN 0
             ELSE CountStitches(StripLine(text[first])),
             SumOfLineCounts(text, first + 1, last))

\* C13: the 'stitches' of a record is the sum of _count_stitches applied
\* separately to its marker line and to each of its continuation lines, the
\* continuation lines of a record being the non-blank lines between its marker
\* and the next marker; so a line is added to the record opened last and to no
\* earlier record.
C13_StitchesAccumulate ==
    pc = "parsed" =>
        LET idx == MarkerIndices(text_in) IN
        \A i \in 1..Len(idx) :
            parsed[1].rounds[i].stitches
                = SumOfLineCounts(text_in, idx[i], LastLineOf(text_in, i))

\* a continuation line was added to the second of two records, not to the first
C13_Witness ==
    /\ pc = "parsed"
    /\ text_in = <<L_MagicRing, L_Mult, L_Cluster>>
    /\ parsed[1].rounds[1].stitches = 6
    /\ parsed[1].rounds[2].stitches = 18

\* the count a histogram holds for an abbreviation, 0 when it has no such key
HistogramCount(stitch_types, abbrev) ==
    IF abbrev \in DictKeys(stitch_types) THEN DictGet(stitch_types, abbrev) ELSE 0

\* the whole-word occurrences of an abbreviation on the non-blank lines
\* first..last of a text, line by line
RECURSIVE SumOfOccurrences(_, _, _, _)
SumOfOccurrences(text, first, last, abbrev) ==
    IF first > last THEN 0
    ELSE AbbrevCount(LowerLine(StripLine(text[first])), abbrev)
            + SumOfOccurrences(text, first + 1, last, abbrev)

\* C14: for every abbreviation of the vocabulary, the count in a record's
\* histogram is the sum, over the marker line and all continuation lines of
\* the record, of the whole-word occurrences of the abbreviation on each line:
\* a later line adds to the count of an earlier line and never replaces it.
C14_HistogramAccumulates ==
    pc = "parsed" =>
        LET idx == MarkerIndices(text_in) IN
        \A i \in 1..Len(idx) :
            \A s \in 1..Len(pattern_service.stitch_symbols) :
                HistogramCount(parsed[1].rounds[i].stitch_types,
                               pattern_service.stitch_symbols[s])
                    = SumOfOccurrences(text_in, idx[i], LastLineOf(text_in, i),
                                       pattern_service.stitch_symbols[s])

\* the line is decided by the 'N <stitch> in each' rule: the multiplier
\* pattern is on it and no rule above matches
IsMultiplierLine(l) ==
    /\ IncreaseHits(l) # {}
    /\ ExplicitTotalHits(l) = {}
    /\ DigitsAfterHits(l, ContainsTotal) = {}
    /\ MagicRingHits(l) = {}

\* C15: a round line 'N <stitch> in each ...' that no higher rule matches
\* counts N times the stitch count of the previous round whenever the parsed
\* sequence has a previous round; a first round, with no count to multiply,
\* takes the one fallback of the parser (the count of the rules below).
C15_MultiplierUsesPreviousRound ==
    pc = "parsed" =>
        \A i \in OneLineRecords :
            LET rounds == parsed[1].rounds
                l == LowerLine(rounds[i].instructions)
                multiplier == LeadingInt(l[MinOf(IncreaseHits(l))])
            IN  IsMultiplierLine(l) =>
                    IF i > 1
                    THEN rounds[i].stitches = Mul(multiplier, rounds[i - 1].stitches)
                    ELSE IncreaseCount(l) = <<>> =>
                            rounds[i].stitches = FallbackCount(l)

\* the SVG chart of the parsed pattern has been returned
SvgReturned == pc = "rendered" /\ entry = "svg"

\* the chart is laid out as circular: the type the chart call works with
LaidOutCircular ==
    GetPatternType(parsed[1].pattern_text) \in {"circular", "unknown"}

\* the elements of a role, in document order
ElementsOf(role) ==
    LET HasRole(e) == e.role = role IN SelectSeq(DocElements, HasRole)

\* C16: in the circular chart the ring of the i-th record (by position in the
\* parsed sequence) has radius 50 + (i - 1) * 35, whatever the record's
\* 'number' is, so the radii are distinct and strictly increasing.
C16_RadiusByPosition ==
    (SvgReturned /\ LaidOutCircular) =>
        LET rings == ElementsOf("ring") IN
        /\ Len(rings) = Len(parsed[1].rounds)
        /\ \A i \in 1..Len(rings) : rings[i].r = 50 + (i - 1) * 35

\* the largest radius among the rings of the document
OutermostRingRadius ==
    LET rings == ElementsOf("ring") IN
    CHOOSE r \in {rings[i].r : i \in 1..Len(rings)} :
        \A i \in 1..Len(rings) : rings[i].r <= r

\* C17: every chart laid out as circular (type circular or unknown) with at
\* least one round has exactly 8 radial guides, and each guide runs from the
\* centre to the radius of the outermost ring that is drawn.
C17_EightGuidesToOutermostRing ==
    (SvgReturned /\ LaidOutCircular /\ parsed[1].rounds # <<>>) =>
        LET guides == ElementsOf("guide")
            centre == ChartCentre(parsed[1])
        IN  /\ Len(guides) = 8
            /\ \A i \in 1..Len(guides) :
                  /\ guides[i].start = AbsPt(centre.x, centre.y)
                  /\ guides[i].end.rad = OutermostRingRadius

\* the key of a histogram with the highest count, the first of them in the
\* declaration order of the vocabulary
FirstInVocabulary(self, stitch_types) ==
    LET top == {s \in 1..Len(self.stitch_symbols) :
                   HistogramCount(stitch_types, self.stitch_symbols[s])
                       = MaxValue(stitch_types)}
    IN  self.stitch_symbols[MinOf(top)]

\* C18: every position of a ring carries the symbol of the round's dominant
\* stitch type, the key of the round's histogram with the highest count, ties
\* broken by the declaration order of the vocabulary - whatever the order in
\* which the abbreviations came in the text or over the continuation lines.
C18_DominantByVocabularyOrder ==
    SvgReturned =>
        \A r \in 1..Len(parsed[1].rounds) :
            LET round_data == parsed[1].rounds[r]
                drawn == {DocElements[i] : i \in 1..Len(DocElements)}
                dominant == FirstInVocabulary(pattern_service, round_data.stitch_types)
            IN  round_data.stitch_types # <<>> =>
                    \A k \in 0..(round_data.stitches - 1) :
                        LET symbol == DrawStitchSymbol(
                                          "stitch", RingPoint(parsed[1], round_data, k),
                                          dominant)
                        IN  \A e \in 1..Len(symbol) : symbol[e] \in drawn

\* how many primitives of a symbol satisfy a test
CountOf(symbol, Test(_)) == Cardinality({e \in 1..Len(symbol) : Test(symbol[e])})

\* the shape of a symbol: its ovals, filled dots, diagonals, vertical stems and
\* horizontal crossbars
ShapeOf(symbol) ==
    LET IsOval(e) == e.tag = "ellipse"
        IsDot(e) == e.tag = "circle" /\ e.fill # "none"
        IsDiagonal(e) == e.tag = "line" /\ e.start.dx # e.end.dx /\ e.start.dy # e.end.dy
        IsStem(e) == e.tag = "line" /\ e.start.dx = e.end.dx /\ e.start.dy # e.end.dy
        IsBar(e) == e.tag = "line" /\ e.start.dy = e.end.dy /\ e.start.dx # e.end.dx
    IN  [ovals |-> CountOf(symbol, IsOval), dots |-> CountOf(symbol, IsDot),
         diagonals |-> CountOf(symbol, IsDiagonal),
         stems |-> CountOf(symbol, IsStem), bars |-> CountOf(symbol, IsBar)]

\* the canonical symbols: oval, filled dot, X, stem with one, two, three bars
CanonicalShape(stitch_type) ==
    LET none == [ovals |-> 0, dots |-> 0, diagonals |-> 0, stems |-> 0, bars |-> 0] IN
    CASE stitch_type = "ch"    -> [none EXCEPT !.ovals = 1]
      [] stitch_type = "sl st" -> [none EXCEPT !.dots = 1]
      [] stitch_type = "sc"    -> [none EXCEPT !.diagonals = 2]
      [] stitch_type = "hdc"   -> [none EXCEPT !.stems = 1, !.bars = 1]
      [] stitch_type = "dc"    -> [none EXCEPT !.stems = 1, !.bars = 2]
      [] stitch_type = "tc"    -> [none EXCEPT !.stems = 1, !.bars = 3]

CanonicalTypes == {"ch", "sl st", "sc", "hdc", "dc", "tc"}

\* C19: a ring whose stitch type is chain, slip stitch, single, half-double,
\* double or treble crochet is drawn with that type's own symbol: an oval, a
\* filled dot, an X, a stem with one, with two, with three crossbars; none of
\* them is drawn with the symbol of another.
C19_CanonicalSymbols ==
    SvgReturned =>
        \A r \in 1..Len(parsed[1].rounds) :
            LET round_data == parsed[1].rounds[r]
                stitch_type == GetDominantStitchType(round_data.stitch_types)
                drawn == {DocElements[i] : i \in 1..Len(DocElements)}
                symbol == DrawStitchSymbol("stitch", RingPoint(parsed[1], round_data, 0),
                                           stitch_type)
            IN  (round_data.stitches > 0 /\ stitch_type \in CanonicalTypes) =>
                    /\ \A e \in 1..Len(symbol) : symbol[e] \in drawn
                    /\ ShapeOf(symbol) = CanonicalShape(stitch_type)

\* the layer of an element in the z-order of the chart
Layer(e) ==
    CASE e.role = "background" -> 1
      [] e.role \in {"title", "subtitle"} -> 2
      [] e.role = "guide" -> 3
      [] e.role = "arrow" -> 4
      [] e.role = "ring" -> 5
      [] e.role \in {"round_label", "count_label"} -> 6
      [] e.role = "stitch" -> 7
      [] e.role = "legend" -> 8

\* C20: the elements of every chart come in one z-order: background, title
\* and subtitle, radial guides, directional arrows, all guide circles of the
\* rounds, all round labels and stitch-count texts, all stitch symbols with the
\* rings taken outer to inner, the legend last; so no guide circle or label of
\* a round comes after a stitch symbol of another round and nothing of a round
\* comes after a legend element.
C20_FixedZOrder ==
    SvgReturned =>
        \A i, j \in 1..Len(DocElements) :
            i < j =>
                /\ Layer(DocElements[i]) <= Layer(DocElements[j])
                /\ (DocElements[i].role = "stitch" /\ DocElements[j].role = "stitch") =>
                      Anchor(DocElements[i]).rad >= Anchor(DocElements[j]).rad

\* the chart call classifies the pattern as rectangular
LaidOutRectangular == GetPatternType(parsed[1].pattern_text) = "rectangular"

\* C21: the chart of a pattern classified rectangular lays every record out
\* as a horizontal band, one below the other, and not as a concentric ring;
\* it has no radial guides, and its directional cues are straight arrows, one
\* per row, alternating in direction.
C21_RectangularBands ==
    (SvgReturned /\ LaidOutRectangular /\ parsed[1].rounds # <<>>) =>
        LET bands == ElementsOf("band")
            arrows == ElementsOf("arrow")
        IN  /\ ElementsOf("ring") = <<>>
            /\ ElementsOf("guide") = <<>>
            /\ Len(bands) = Len(parsed[1].rounds)
            /\ \A i \in 1..(Len(bands) - 1) : bands[i].insert.cy < bands[i + 1].insert.cy
            /\ Len(arrows) = Len(parsed[1].rounds)
            /\ \A i \in 1..Len(arrows) : arrows[i].tag = "line"

\* the chart call classifies the pattern as circular
ClassifiedCircular == GetPatternType(parsed[1].pattern_text) = "circular"

\* C22: every circular chart with at least one round, a single round
\* included, has exactly one curved directional arrow; it lies around the
\* outermost ring that is drawn and sweeps 270 degrees.
C22_OneCurvedArrow ==
    (SvgReturned /\ ClassifiedCircular /\ parsed[1].rounds # <<>>) =>
        LET arrows == ElementsOf("arrow") IN
        /\ Len(arrows) = 1
        /\ arrows[1].tag = "path"
        /\ arrows[1].r > OutermostRingRadius
        /\ (arrows[1].end.k - arrows[1].start.k) * 360 = 270 * arrows[1].start.n

\* the sum of the stitch counts of the records
TotalStitches(rounds) ==
    LET sum[i \in 0..Len(rounds)] ==
            IF i = 0 THEN 0 ELSE Add(sum[i - 1], rounds[i].stitches)
    IN  sum[Len(rounds)]

\* the size class a label of _estimate_size names
SizeClass(label) ==
    CASE label = "small (< 3 inches)" -> "small"
      [] label = "medium (3-6 inches)" -> "medium"
      [] label = "large (> 6 inches)" -> "large"
      [] OTHER -> label

\* C23: the estimated size is 'unknown' exactly when the pattern has no
\* record; otherwise, with T the sum of the records' stitch counts, it is small
\* for T < 50, medium for 50 <= T < 200 and large for T >= 200.
C23_SizeByTotal ==
    pc = "parsed" =>
        LET rounds == parsed[1].rounds
            T == TotalStitches(rounds)
            size == SizeClass(parsed[1].estimated_size)
        IN  /\ size = "unknown" <=> rounds = <<>>
            /\ rounds # <<>> =>
                  /\ T < 50 => size = "small"
                  /\ (50 <= T /\ T < 200) => size = "medium"
                  /\ T >= 200 => size = "large"

\* two records whose stitch counts add up to the limit 50
C23_Witness ==
    /\ pc = "parsed"
    /\ Len(parsed[1].rounds) = 2
    /\ TotalStitches(parsed[1].rounds) = 50
    /\ parsed[1].estimated_size = "medium (3-6 inches)"

(***************************************************************************)
(* Smart-routed requests on server processes that share the database.  A   *)
(* process runs _chat_with_gemini / _translate_with_gemini without giving  *)
(* way to another request of its own event loop (neither function awaits), *)
(* so it has one request in flight; the other processes run between its    *)
(* database queries, its call of the model and its commit.                 *)
(***************************************************************************)
\* the usage table at some hour of the day: empty, or a row per Gemini model
\* with the last slot free or taken
QuotaDatabases ==
    {DatabaseInit} \cup
    {[DatabaseInit EXCEPT
         !.usage = [id \in 1..4 |->
                       LET model == GeminiModel[PreferredOrder("complex")[id]]
                       IN  [model_name |-> model.name,
                            request_count |-> model.daily_limit - left[id]]]] :
        left \in [1..4 -> {0, 1}]}

InitQuota ==
    /\ pc = "idle"
    /\ text_in = <<>>
    /\ parsed = <<>>
    /\ outcome = <<>>
    /\ entry = "none"
    /\ served = 0
    /\ pattern_service = PatternServiceInit
    /\ figures = <<>>
    /\ gcf = <<>>
    /\ thread = [t \in Threads |-> IdleThread]
    /\ ai_service = AIServiceInit(TRUE)
    /\ request = NoRequest
    /\ database \in QuotaDatabases
    /\ worker = [w \in Workers |-> IdleWorker]
    /\ chat = NoChat

\* chat_about_pattern / translate_crochet_pattern up to the call of
\* _select_best_available_model; a translation is always "complex"
WorkerBegin(w) ==
    /\ worker[w].pc = "idle"
    /\ worker[w].begun < MaxRequests
    /\ Route(ai_service) = "smart"
    /\ \E kind \in {"chat", "translate"}, complexity \in Complexities :
          /\ kind = "translate" => complexity = "complex"
          /\ worker' = [worker EXCEPT ![w] =
                           [@ EXCEPT !.pc = "select", !.kind = kind,
                                     !.complexity = complexity, !.i = 1,
                                     !.begun = @ + 1]]
    /\ UNCHANGED <<ai_service, request, database, chat, chartVars>>

\* one turn of the loop of _select_best_available_model: the query for
\* preferred_order[i], then the return of the model, the next turn, or the
\* return of None and of the text of its caller
WorkerSelect(w) ==
    /\ worker[w].pc = "select"
    /\ LET order == PreferredOrder(worker[w].complexity)
           model == GeminiModel[order[worker[w].i]]
       IN  worker' = [worker EXCEPT ![w] =
                IF QuotaLeft(database, model)
                THEN [@ EXCEPT !.pc = "generate", !.model = <<model.name>>]
                ELSE IF worker[w].i < Len(order)
                THEN [@ EXCEPT !.i = @ + 1]
                ELSE [@ EXCEPT !.pc = "done", !.result = <<DailyLimitsText>>]]
    /\ UNCHANGED <<ai_service, request, database, chat, chartVars>>

\* client.models.generate_content: the model answers or the call raises
WorkerGenerate(w) ==
    /\ worker[w].pc = "generate"
    /\ \E reply \in {"answer", "error"} :
          LET posted == [worker[w] EXCEPT
                            !.posts = Append(@, [model |-> worker[w].model[1],
                                                 reply |-> reply])]
          IN worker' = [worker EXCEPT ![w] =
                IF reply = "answer"
                THEN [posted EXCEPT !.pc = "track"]
                ELSE [posted EXCEPT !.pc = "done",
                                    !.result = <<FailedText(worker[w].kind)>>]]
    /\ UNCHANGED <<ai_service, request, database, chat, chartVars>>

\* _increment_usage: the query for today's row of the model
WorkerUsageQuery(w) ==
    /\ worker[w].pc = "track"
    /\ worker' = [worker EXCEPT ![w] =
                     [@ EXCEPT !.pc = "commit",
                               !.usage = UsageFirst(database, worker[w].model[1])]]
    /\ UNCHANGED <<ai_service, request, database, chat, chartVars>>

\* _increment_usage: the count plus one or the new row, the commit, and the
\* return of the prefixed answer
WorkerUsageCommit(w) ==
    /\ worker[w].pc = "commit"
    /\ database' = UsageCommit(database, worker[w].model[1], worker[w].usage)
    /\ worker' = [worker EXCEPT ![w] =
                     [@ EXCEPT !.pc = "done",
                               !.result = <<Reply(worker[w].model[1], TRUE)>>]]
    /\ UNCHANGED <<ai_service, request, chat, chartVars>>

\* the caller takes the returned text
WorkerDeliver(w) ==
    /\ worker[w].pc = "done"
    /\ worker' = [worker EXCEPT ![w] = [IdleWorker EXCEPT !.begun = worker[w].begun]]
    /\ UNCHANGED <<ai_service, request, database, chat, chartVars>>

NextQuota ==
    \E w \in Workers :
        \/ WorkerBegin(w)
        \/ WorkerSelect(w)
        \/ WorkerGenerate(w)
        \/ WorkerUsageQuery(w)
        \/ WorkerUsageCommit(w)
        \/ WorkerDeliver(w)

SpecQuota == InitQuota /\ [][NextQuota]_vars

\* the turn of the selection loop that ends the loop
SelectionEnds(w) == worker[w].pc = "select" /\ worker'[w].pc # "select"

\* C24: under smart routing the selection returns the first model, in the
\* preference order of the request's complexity, whose usage of today is
\* strictly below its daily limit, and None exactly when every model is at or
\* above its limit; then the request returns the 'daily limits' text, has
\* contacted no model and changes no usage row.
C24_FirstModelBelowLimit ==
    [][\A w \in Workers :
          SelectionEnds(w) =>
              LET order == PreferredOrder(worker[w].complexity)
                  count(i) == GetUsageForDate(database, GeminiModel[order[i]].name)
                  limit(i) == GeminiModel[order[i]].daily_limit
                  none == \A i \in DOMAIN order : count(i) >= limit(i)
              IN  /\ none <=> worker'[w].model = <<>>
                  /\ none => /\ worker'[w].pc = "done"
                             /\ worker'[w].result = <<DailyLimitsText>>
                             /\ worker'[w].posts = <<>>
                             /\ database' = database
                  /\ ~none =>
                        \E i \in DOMAIN order :
                            /\ worker'[w].model = <<GeminiModel[order[i]].name>>
                            /\ count(i) < limit(i)
                            /\ \A j \in 1..(i - 1) : count(j) >= limit(j)
                            /\ worker'[w].pc = "generate"]_vars

\* a request answered with the 'daily limits' text while every model is at
\* its limit
C24_Witness ==
    \E w \in Workers :
        /\ worker[w].pc = "done"
        /\ worker[w].result = <<DailyLimitsText>>
        /\ worker[w].posts = <<>>
        /\ \A k \in DOMAIN GeminiModel :
              GetUsageForDate(database, GeminiModel[k].name) >= GeminiModel[k].daily_limit

\* C25: under smart routing the request count recorded for a Gemini model
\* never exceeds the model's daily limit, however the requests interleave.
C25_CountWithinLimit ==
    \A id \in DOMAIN database.usage :
        \A k \in DOMAIN GeminiModel :
            database.usage[id].model_name = GeminiModel[k].name
                => database.usage[id].request_count <= GeminiModel[k].daily_limit

\* the rows of a model, today
RowsOf(db, model_name) ==
    {id \in DOMAIN db.usage : db.usage[id].model_name = model_name}

\* C26: every successful request adds exactly one to the count that
\* _get_usage_for_date reads for its model, and the model has exactly one
\* usage row afterwards: no increment is lost, no second row is created.
C26_ExactBookkeeping ==
    [][\A w \in Workers :
          (worker[w].pc = "commit" /\ worker'[w].pc = "done") =>
              LET model_name == worker[w].model[1] IN
                 /\ GetUsageForDate(database', model_name)
                        = GetUsageForDate(database, model_name) + 1
                 /\ Cardinality(RowsOf(database', model_name)) = 1]_vars

\* C27: a set_ai_model call that returns success=False leaves the configuration
\* unchanged: get_ai_provider_config reports the same selected model, priority
\* order, provider preference and use_openrouter flag as before the call, and
\* the persisted configuration is the same.
C27_FailedSetChangesNothing ==
    [][\A model_name \in ModelNames, priority_order \in PriorityOrders :
          (/\ SetModelCall(model_name, priority_order)
           /\ ~SetAiModel(ai_service, model_name, priority_order).success)
              => /\ GetAiProviderConfig(ai_service') = GetAiProviderConfig(ai_service)
                 /\ database'.config = database.config]_vars

\* the mode a route belongs to
ModeOf(route) ==
    CASE route = "selected" -> "single model"
      [] route = "chain" -> "fallback chain"
      [] OTHER -> "smart routing"

\* C28: after any sequence of set_ai_model calls, a new AIService that loads
\* the persisted configuration reports the same get_ai_provider_config as the
\* running instance and routes the next request through the same mode.
C28_SaveLoadIdentity ==
    LET fresh == NewAIService(ai_service.gemini_api_key, database)
    IN  /\ GetAiProviderConfig(fresh) = GetAiProviderConfig(ai_service)
        /\ ModeOf(Route(fresh)) = ModeOf(Route(ai_service))

\* the shape class a classifier's label denotes
ShapeClass(label) ==
    CASE label \in {"circular", "rounds"} -> "circular"
      [] label \in {"rectangular", "rows"} -> "rectangular"
      [] OTHER -> label

\* C29: the two classifiers agree on every text: the type stored by
\* parse_pattern_structure (_determine_pattern_type) denotes the same shape
\* class, circular, rectangular or unknown, as get_pattern_type applied to the
\* stored pattern text, which decides on guides and arrows.
C29_ClassifiersAgree ==
    pc = "parsed" =>
        ShapeClass(parsed[1].pattern_type)
            = ShapeClass(GetPatternType(parsed[1].pattern_text))

(***************************************************************************)
(* The chat mutations of schemas/mutations.py.  A mutation reads the chat  *)
(* history, hands it to ai_service.chat_about_pattern with the message and *)
(* stores the exchange.  The caller is the user the request context holds, *)
(* <<>> for a request without a valid token.                               *)
(***************************************************************************)
\* limit=100 of the history queries
HistoryLimit == 100

\* .order_by(created_at.desc()).limit(limit).all(), reversed: the last
\* `limit` of the rows, oldest first
RecentRows(rows, limit) ==
    IF Len(rows) <= limit THEN rows
    ELSE SubSeq(rows, Len(rows) - limit + 1, Len(rows))

\* get_recent_chat_history(db, user_id, limit): the user filter is applied
\* only `if user_id`
GetRecentChatHistory(db, user_id, limit) ==
    RecentRows(SelectSeq(db.chat_messages,
                         LAMBDA msg : user_id = <<>> \/ msg.user_id = user_id),
               limit)

\* get_conversation_chat_history(db, conversation_id, limit)
GetConversationChatHistory(db, conversation_id, limit) ==
    RecentRows(SelectSeq(db.chat_messages,
                         LAMBDA msg : msg.conversation_id = <<conversation_id>>),
               limit)

\* store_chat_message: a new ChatMessage row
StoreChatMessage(db, user_id, conversation_id) ==
    [db EXCEPT !.chat_messages =
        Append(@, [id |-> Len(@) + 1, user_id |-> user_id,
                   conversation_id |-> conversation_id])]

\* Mutation.chat_with_assistant: no user, no conversation
ChatWithAssistant ==
    /\ Len(database.chat_messages) < MaxMessages
    /\ \E user \in {<<>>} \cup {<<u>> : u \in Users} :
          /\ chat' = [entry |-> "chat_with_assistant", user |-> user,
                      conversation_id |-> <<>>,
                      chat_history |->
                          GetRecentChatHistory(database, <<>>, HistoryLimit)]
          /\ database' = StoreChatMessage(database, <<>>, <<>>)
    /\ UNCHANGED <<ai_service, request, worker, chartVars>>

\* Mutation.chat_with_assistant_enhanced
ChatWithAssistantEnhanced ==
    /\ Len(database.chat_messages) < MaxMessages
    /\ \E user \in {<<>>} \cup {<<u>> : u \in Users},
          conversation_id \in {<<>>} \cup
              {<<Conversations[c].id>> : c \in DOMAIN Conversations} :
          /\ chat' = [entry |-> "chat_with_assistant_enhanced", user |-> user,
                      conversation_id |-> conversation_id,
                      chat_history |->
                          IF conversation_id # <<>>
                          THEN GetConversationChatHistory(
                                   database, conversation_id[1], HistoryLimit)
                          ELSE GetRecentChatHistory(database, user, HistoryLimit)]
          /\ database' = StoreChatMessage(database, user, conversation_id)
    /\ UNCHANGED <<ai_service, request, worker, chartVars>>

NextChat == ChatWithAssistant \/ ChatWithAssistantEnhanced

SpecChat == Init /\ [][NextChat]_vars

\* the owner of a conversation
OwnerOf(conversation_id) ==
    LET c == CHOOSE c \in DOMAIN Conversations :
                 Conversations[c].id = conversation_id
    IN  <<Conversations[c].user_id>>

\* C30: the chat history handed to the AI holds only exchanges of the
\* requesting user: no message stored under a user's id appears in the history
\* of another user or of an unauthenticated caller, and with a conversation id
\* the history is that of a conversation the caller owns.
C30_HistoryOfCallerOnly ==
    /\ \A i \in DOMAIN chat.chat_history :
          chat.chat_history[i].user_id # <<>>
              => chat.chat_history[i].user_id = chat.user
    /\ (chat.conversation_id # <<>> /\ chat.chat_history # <<>>)
          => OwnerOf(chat.conversation_id[1]) = chat.user
====
